---- MODULE Spec2Model ----
(***************************************************************************)
(* A model of the typography agent's analysis-and-correction engine:       *)
(*   - autoFitText (host script): the bounded shrink/grow font-size search *)
(*   - TypographyAnalyzer: analyzeFontPairing, categorizeFontFamily,       *)
(*     analyzeReadability, analyzeHierarchy, analyzeElements,              *)
(*     generateRecommendations                                             *)
(*   - TypographyAgent.batchFormatText (host script) with shouldApplyRule  *)
(*     and applyFormattingRule                                             *)
(*   - TypographyAgent.applyTypographyFix with applyHierarchyFix, as the   *)
(*     host script is called directly and through IllustratorInterface     *)
(*   - TypographyAgent.autoAdjustTextBoxes                                 *)
(* Each operation has its own specification (SpecAutoFit, SpecPairing,     *)
(* SpecReadability, SpecHierarchy, SpecAnalyze, SpecRecommend, SpecRepeat, *)
(* SpecFormat, SpecFix, SpecBox) over the shared variables; `op` says      *)
(* which operation a behaviour exercises, and the variables of the other   *)
(* operations stay parked at fixed values.                                 *)
(***************************************************************************)
EXTENDS Integers, Sequences, FiniteSets, TLC

VARIABLES
    op,          \* which operation this behaviour exercises
    \* ---- autoFitText ----
    params,      \* the adjustment parameters as passed: [baseFontSize, maxFontSize], 0 = not given
    probe,       \* how the host answers textFrame.overflowed
    pc,          \* position in autoFitText
    size,        \* textRange.characterAttributes.size
    iteration,   \* the local `iteration`
    probes,      \* number of reads of textFrame.overflowed so far
    shrinks,     \* number of `size *= 0.95` steps of the shrink loop so far
    grows,       \* number of `size *= 1.05` steps of the grow loop so far
    overflowed,  \* the answer of the last read of textFrame.overflowed
    \* ---- TypographyAnalyzer ----
    elements,    \* the element sequence passed to the analyzer
    elementsGiven, \* FALSE when the caller passed no element sequence at all
    result,      \* what the last analyzer call returned
    prevElements,\* the element sequence of the call before
    prevResult,  \* what the call before returned
    \* ---- TypographyAgent.batchFormatText ----
    documentOpen,\* app.documents.length > 0
    rules,       \* the parsed formatRules
    textFrames,  \* doc.textFrames: the text attributes of each frame
    hostFails,   \* the attribute whose write the host rejects, or "none"
    batchPc,     \* position in batchFormatText
    frameIdx,    \* the loop variable i (0-based)
    ruleIdx,     \* the loop variable j (0-based)
    appliedRules,\* the local appliedRules of the current frame
    results,     \* the local results
    returned,    \* what batchFormatText returned
    lastStep,    \* the last test of a rule against a frame, and what it did
    originalFrames, \* doc.textFrames as they were when batchFormatText was called
    \* ---- TypographyAgent.applyTypographyFix ----
    fixCall,     \* how applyTypographyFix is called: caller, fixType, parameters, document
    selection,   \* doc.selection: the type name and font size of each item
    fixReturned, \* what applyTypographyFix returned
    prevSelection, \* doc.selection as it was before the last call
    \* ---- TypographyAgent.autoAdjustTextBoxes ----
    boxCall,     \* how autoAdjustTextBoxes is called: params and document
    boxFrames,   \* the selected items: type name, width, height, left, top
    boxReturned  \* what autoAdjustTextBoxes returned

autoFitVars == <<params, probe, pc, size, iteration, probes, shrinks, grows, overflowed>>
analyzerVars == <<elements, elementsGiven, result, prevElements, prevResult>>
formatVars == <<documentOpen, rules, textFrames, hostFails, batchPc, frameIdx, ruleIdx, appliedRules,
                results, returned, lastStep, originalFrames>>
fixVars == <<fixCall, selection, fixReturned, prevSelection>>
boxVars == <<boxCall, boxFrames, boxReturned>>
vars == <<op, params, probe, pc, size, iteration, probes, shrinks, grows, overflowed,
          elements, elementsGiven, result, prevElements, prevResult,
          documentOpen, rules, textFrames, hostFails, batchPc, frameIdx, ruleIdx,
          appliedRules, results, returned, lastStep, originalFrames,
          fixCall, selection, fixReturned, prevSelection, boxCall, boxFrames, boxReturned>>

(***************************************************************************)
(* autoFitText                                                             *)
(*                                                                         *)
(* Font sizes are real numbers.  Every size the function can write is      *)
(* baseFontSize * 0.95^down * 1.05^up, so a size is kept exactly, as the   *)
(* pair of exponents [down, up].  Sizes are compared through their natural *)
(* logarithms in units of 10^-6: ln(0.95) = -0.051293, ln(1.05) =          *)
(* 0.048790.  For the exponents (at most 21 and 20) and the point values   *)
(* of LnPoints the rounding of the logarithms never changes the outcome of *)
(* a comparison.                                                           *)
(***************************************************************************)
maxIterations == 20

Ln095 == -51293
Ln105 == 48790

\* ln(n) * 10^6 for the point sizes the inputs are drawn from
LnPoints == [n \in {4, 5, 10, 12, 60, 70, 72, 100} |->
               CASE n = 4   -> 1386294
                 [] n = 5   -> 1609438
                 [] n = 10  -> 2302585
                 [] n = 12  -> 2484907
                 [] n = 60  -> 4094345
                 [] n = 70  -> 4248495
                 [] n = 72  -> 4276666
                 [] n = 100 -> 4605170]

\* var baseFontSize = params.baseFontSize || 12;
baseFontSize == IF params.baseFontSize # 0 THEN params.baseFontSize ELSE 12

\* var maxFontSize = params.maxFontSize || 72;
maxFontSize == IF params.maxFontSize # 0 THEN params.maxFontSize ELSE 72

\* ln(size) * 10^6 of the size baseFontSize * 0.95^s.down * 1.05^s.up
LnSize(s) == LnPoints[baseFontSize] + s.down * Ln095 + s.up * Ln105

\* size *= 0.95
TimesDown(s) == [s EXCEPT !.down = @ + 1]

\* size *= 1.05
TimesUp(s) == [s EXCEPT !.up = @ + 1]

\* size < maxFontSize
BelowMax(s) == LnSize(s) < LnPoints[maxFontSize]

\* The answers the host can give to one read of textFrame.overflowed when the
\* frame's font size is s: anything for an arbitrary probe (rendering timing
\* quirks), and "s exceeds the threshold T" for a monotone one.
ProbeAnswers(s) ==
    IF probe.kind = "arbitrary" THEN BOOLEAN
    ELSE {LnSize(s) > LnPoints[probe.T]}

\* The parameter values and probes a run is started with.
BaseSizes == {0, 12, 60, 70, 72}
MaxSizes == {0, 72, 100}
Thresholds == {4, 5, 10, 60, 100}
ParamSet == {p \in [baseFontSize : BaseSizes, maxFontSize : MaxSizes] :
               LnPoints[IF p.baseFontSize # 0 THEN p.baseFontSize ELSE 12]
                 <= LnPoints[IF p.maxFontSize # 0 THEN p.maxFontSize ELSE 72]}
ProbeSet == {[kind |-> "arbitrary", T |-> 100]}
              \cup {[kind |-> "monotone", T |-> t] : t \in Thresholds}

\* The state when the operation exercised is not autoFitText.
AutoFitParked ==
    /\ params = [baseFontSize |-> 0, maxFontSize |-> 0]
    /\ probe = [kind |-> "arbitrary", T |-> 100]
    /\ pc = "off"
    /\ size = [down |-> 0, up |-> 0]
    /\ iteration = 0
    /\ probes = 0
    /\ shrinks = 0
    /\ grows = 0
    /\ overflowed = FALSE

\* The state when the operation exercised is not an analyzer.
AnalyzerParked ==
    /\ elements = <<>>
    /\ elementsGiven = TRUE
    /\ result = [called |-> "none"]
    /\ prevElements = <<>>
    /\ prevResult = [called |-> "none"]

\* The state when the operation exercised is not batchFormatText.
FormatParked ==
    /\ documentOpen = FALSE
    /\ rules = << >>
    /\ textFrames = << >>
    /\ hostFails = "none"
    /\ batchPc = "off"
    /\ frameIdx = 0
    /\ ruleIdx = 0
    /\ appliedRules = << >>
    /\ results = << >>
    /\ returned = [success |-> FALSE, called |-> FALSE]
    /\ lastStep = [tested |-> FALSE]
    /\ originalFrames = << >>

\* The state when the operation exercised is not applyTypographyFix.
FixParked ==
    /\ fixCall = [called |-> FALSE]
    /\ selection = << >>
    /\ fixReturned = [called |-> FALSE]
    /\ prevSelection = << >>

\* The state when the operation exercised is not autoAdjustTextBoxes.
BoxParked ==
    /\ boxCall = [called |-> FALSE]
    /\ boxFrames = << >>
    /\ boxReturned = [called |-> FALSE]

\* autoFitText up to its first loop: the locals are set and the frame's size
\* is set to baseFontSize.
AutoFitStart ==
    /\ params \in ParamSet
    /\ probe \in ProbeSet
    /\ pc = "shrink"
    /\ size = [down |-> 0, up |-> 0]
    /\ iteration = 0
    /\ probes = 0
    /\ shrinks = 0
    /\ grows = 0
    /\ overflowed = FALSE

\* ShrinkGuard with the cap off by one
ShrinkGuardOffByOne(o) == o /\ iteration <= maxIterations

\* while (textFrame.overflowed && iteration < maxIterations)
ShrinkGuard(o) == o /\ iteration < maxIterations

\* GrowGuard with the cap off by one
GrowGuardOffByOne(o) == ~o /\ BelowMax(size) /\ iteration <= maxIterations

\* while (!textFrame.overflowed && size < maxFontSize && iteration < maxIterations)
GrowGuard(o) == ~o /\ BelowMax(size) /\ iteration < maxIterations

\* One test of the shrink loop that enters the body: size *= 0.95; iteration++
ShrinkStep ==
    /\ pc = "shrink"
    /\ \E o \in ProbeAnswers(size) :
         /\ ShrinkGuard(o)
         /\ overflowed' = o
    /\ probes' = probes + 1
    /\ size' = TimesDown(size)
    /\ iteration' = iteration + 1
    /\ shrinks' = shrinks + 1
    /\ UNCHANGED <<op, params, probe, pc, grows>>
    /\ UNCHANGED <<analyzerVars, formatVars, fixVars, boxVars>>

\* The test of the shrink loop that leaves it; then iteration = 0
ShrinkExit ==
    /\ pc = "shrink"
    /\ \E o \in ProbeAnswers(size) :
         /\ ~ShrinkGuard(o)
         /\ overflowed' = o
    /\ probes' = probes + 1
    /\ iteration' = 0
    /\ pc' = "grow"
    /\ UNCHANGED <<op, params, probe, size, shrinks, grows>>
    /\ UNCHANGED <<analyzerVars, formatVars, fixVars, boxVars>>

\* One test of the grow loop that enters the body: size *= 1.05; iteration++
GrowStep ==
    /\ pc = "grow"
    /\ \E o \in ProbeAnswers(size) :
         /\ GrowGuard(o)
         /\ overflowed' = o
    /\ probes' = probes + 1
    /\ size' = TimesUp(size)
    /\ iteration' = iteration + 1
    /\ grows' = grows + 1
    /\ pc' = "growCheck"
    /\ UNCHANGED <<op, params, probe, shrinks>>
    /\ UNCHANGED <<analyzerVars, formatVars, fixVars, boxVars>>

\* GrowCorrection with the corrective multiplication made twice
GrowCorrectionTwice(s) == TimesDown(TimesDown(s))

\* GrowCorrection without the corrective multiplication
GrowCorrectionMissing(s) == s

\* The size the grow loop's body leaves when the step it just made overflows
GrowCorrection(s) == TimesDown(s)

\* if (textFrame.overflowed) { size *= 0.95; break; }
GrowCheckOverflow ==
    /\ pc = "growCheck"
    /\ \E o \in ProbeAnswers(size) :
         /\ o
         /\ overflowed' = o
    /\ probes' = probes + 1
    /\ size' = GrowCorrection(size)
    /\ pc' = "done"
    /\ UNCHANGED <<op, params, probe, iteration, shrinks, grows>>
    /\ UNCHANGED <<analyzerVars, formatVars, fixVars, boxVars>>

\* The same test when the frame does not overflow: back to the loop's test
GrowCheckFits ==
    /\ pc = "growCheck"
    /\ \E o \in ProbeAnswers(size) :
         /\ ~o
         /\ overflowed' = o
    /\ probes' = probes + 1
    /\ pc' = "grow"
    /\ UNCHANGED <<op, params, probe, size, iteration, shrinks, grows>>
    /\ UNCHANGED <<analyzerVars, formatVars, fixVars, boxVars>>

\* The test of the grow loop that leaves it: autoFitText returns
GrowExit ==
    /\ pc = "grow"
    /\ \E o \in ProbeAnswers(size) :
         /\ ~GrowGuard(o)
         /\ overflowed' = o
    /\ probes' = probes + 1
    /\ pc' = "done"
    /\ UNCHANGED <<op, params, probe, size, iteration, shrinks, grows>>
    /\ UNCHANGED <<analyzerVars, formatVars, fixVars, boxVars>>

AutoFitStep ==
    \/ ShrinkStep
    \/ ShrinkExit
    \/ GrowStep
    \/ GrowCheckOverflow
    \/ GrowCheckFits
    \/ GrowExit

InitAutoFit ==
    /\ op = "autoFitText"
    /\ AutoFitStart
    /\ AnalyzerParked
    /\ FormatParked
    /\ FixParked
    /\ BoxParked

SpecAutoFit == InitAutoFit /\ [][AutoFitStep]_vars

\* autoFitText is straight-line synchronous code: it keeps running until it returns.
FairSpecAutoFit == SpecAutoFit /\ WF_vars(AutoFitStep)

(***************************************************************************)
(* autoFitText: the claims                                                 *)
(***************************************************************************)
\* ln * 10^6 of baseFontSize * 0.95^maxIterations
LnLowerBound == LnPoints[baseFontSize] + maxIterations * Ln095

\* Does the frame overflow at size s, for a monotone probe?
Overflows(s) == LnSize(s) > LnPoints[probe.T]

\* C1 (as claimed): when autoFitText returns, the frame's font size lies in
\* [baseFontSize * 0.95^maxIterations, maxFontSize], whatever the probe answers.
C1_SizeWithinBounds ==
    pc = "done" =>
        /\ LnSize(size) >= LnLowerBound
        /\ LnSize(size) <= LnPoints[maxFontSize]

\* C2 (as claimed): one run reads the overflow probe at most 2 * maxIterations times.
C2_ProbesAtMostTwiceMax == probes <= 2 * maxIterations

\* C2 (amended): one run reads the overflow probe at most 3 * maxIterations + 2
\* times: up to maxIterations + 1 tests of the shrink loop, up to
\* maxIterations + 1 tests of the grow loop and up to maxIterations checks
\* after a growth step.
C2_ProbesAtMostThriceMaxPlusTwo == probes <= 3 * maxIterations + 2

\* A run that returned after exactly 3 * maxIterations + 2 reads of the probe.
C2_Witness == pc = "done" /\ probes = 3 * maxIterations + 2

\* C3: autoFitText returns for every behaviour of the probe, after at most
\* maxIterations multiplications of the shrink loop and at most maxIterations
\* growth steps.
C3_TerminatesWithinCaps ==
    /\ <>(pc = "done")
    /\ [](shrinks <= maxIterations /\ grows <= maxIterations)

\* A run against an arbitrary probe that used both caps in full and returned.
C3_Witness ==
    /\ pc = "done"
    /\ probe.kind = "arbitrary"
    /\ shrinks = maxIterations
    /\ grows = maxIterations

\* C4 (as claimed): with a monotone probe the frame does not overflow at the
\* size autoFitText leaves it at.
C4_MonotoneEndsFitting ==
    (pc = "done" /\ probe.kind = "monotone") => ~Overflows(size)

\* C4 (amended): with a monotone probe whose threshold is at least
\* baseFontSize * 0.95^maxIterations (the smallest size the shrink loop can
\* reach), the frame does not overflow at the size autoFitText leaves it at.
C4_MonotoneReachableEndsFitting ==
    (pc = "done" /\ probe.kind = "monotone" /\ LnPoints[probe.T] >= LnLowerBound)
        => ~Overflows(size)

\* A run against a monotone probe that shrank, grew, overshot the threshold
\* and took the corrective step.
C4_Witness ==
    /\ pc = "done"
    /\ probe.kind = "monotone"
    /\ LnPoints[probe.T] >= LnLowerBound
    /\ shrinks > 0
    /\ grows > 0
    /\ overflowed

(***************************************************************************)
(* TypographyAnalyzer                                                      *)
(*                                                                         *)
(* A font family name is a string; it is kept as the sequence of its       *)
(* characters, so that toLowerCase and includes are computed on it.        *)
(* A TextElement is a record                                               *)
(*   [family, fontSize, lineHeight, hasLineLength, lineLength,             *)
(*    characterSpacing]                                                    *)
(* with fontSize in points, lineHeight and characterSpacing in hundredths  *)
(* (1.2 is 120, 0.1 is 10) and lineLength in characters; hasLineLength is  *)
(* FALSE when the element carries no lineLength.                           *)
(***************************************************************************)
UpperLetters == <<"A", "B", "C", "D", "E", "F", "G", "H", "I", "J", "K", "L", "M", "N", "O", "P", "Q", "R", "S", "T", "U", "V", "W", "X", "Y", "Z">>
LowerLetters == <<"a", "b", "c", "d", "e", "f", "g", "h", "i", "j", "k", "l", "m", "n", "o", "p", "q", "r", "s", "t", "u", "v", "w", "x", "y", "z">>

\* String.prototype.toLowerCase
toLowerCase(s) ==
    [i \in 1..Len(s) |->
        IF \E k \in 1..Len(UpperLetters) : UpperLetters[k] = s[i]
        THEN LowerLetters[CHOOSE k \in 1..Len(UpperLetters) : UpperLetters[k] = s[i]]
        ELSE s[i]]

\* String.prototype.includes
includes(s, t) == \E i \in 0..(Len(s) - Len(t)) : SubSeq(s, i + 1, i + Len(t)) = t

\* Array.prototype.includes
arrayIncludes(a, x) == \E i \in 1..Len(a) : a[i] = x

\* Distinct that drops only a repeat of the member just before it
DistinctAdjacentOnly(a) ==
    LET RECURSIVE D(_)
        D(n) == IF n = 0 THEN << >>
                ELSE LET r == D(n - 1)
                     IN IF n > 1 /\ a[n] = a[n - 1] THEN r ELSE Append(r, a[n])
    IN D(Len(a))

\* Distinct that drops nothing
DistinctMissing(a) == a

\* [...new Set(a)]: the distinct members of a, in the order of their first occurrence
Distinct(a) ==
    LET RECURSIVE D(_)
        D(n) == IF n = 0 THEN << >>
                ELSE LET r == D(n - 1)
                     IN IF arrayIncludes(r, a[n]) THEN r ELSE Append(r, a[n])
    IN D(Len(a))

\* this.fontCategories, in the order Object.entries lists it
fontCategories == <<
    [category |-> "serif",
     fonts |-> <<<<"T", "i", "m", "e", "s">>, <<"G", "e", "o", "r", "g", "i", "a">>, <<"M", "i", "n", "i", "o", "n">>, <<"G", "a", "r", "a", "m", "o", "n", "d">>, <<"B", "a", "s", "k", "e", "r", "v", "i", "l", "l", "e">>>>],
    [category |-> "sansSerif",
     fonts |-> <<<<"H", "e", "l", "v", "e", "t", "i", "c", "a">>, <<"A", "r", "i", "a", "l">>, <<"F", "u", "t", "u", "r", "a">>, <<"A", "v", "e", "n", "i", "r">>, <<"P", "r", "o", "x", "i", "m", "a">>>>],
    [category |-> "script",
     fonts |-> <<<<"S", "c", "r", "i", "p", "t">>, <<"B", "r", "u", "s", "h">>, <<"H", "a", "n", "d", "w", "r", "i", "t", "i", "n", "g">>, <<"C", "a", "l", "l", "i", "g", "r", "a", "p", "h", "y">>>>],
    [category |-> "monospace",
     fonts |-> <<<<"C", "o", "u", "r", "i", "e", "r">>, <<"M", "o", "n", "a", "c", "o">>, <<"C", "o", "n", "s", "o", "l", "a", "s">>, <<"M", "e", "n", "l", "o">>>>] >>

\* this.readabilityRules (line heights in hundredths)
readabilityRules ==
    [minFontSize |-> 9, maxFontSize |-> 72,
     optimalLineHeight |-> 140, minLineHeight |-> 120, maxLineHeight |-> 180,
     optimalLineLength |-> 60, minLineLength |-> 45, maxLineLength |-> 75]

\* fonts.some(font => family.includes(font.toLowerCase()))
ListMatches(entry, family) ==
    \E k \in 1..Len(entry.fonts) : includes(family, toLowerCase(entry.fonts[k]))

\* The default categorization of a lower-cased family no list matches
DefaultCategory(family) ==
    IF includes(family, <<"s", "e", "r", "i", "f">>) THEN "serif"
    ELSE IF \/ includes(family, <<"s", "a", "n", "s">>)
            \/ includes(family, <<"a", "r", "i", "a", "l">>)
            \/ includes(family, <<"h", "e", "l", "v", "e", "t", "i", "c", "a">>) THEN "sansSerif"
    ELSE IF \/ includes(family, <<"m", "o", "n", "o">>)
            \/ includes(family, <<"c", "o", "u", "r", "i", "e", "r">>) THEN "monospace"
    ELSE IF \/ includes(family, <<"s", "c", "r", "i", "p", "t">>)
            \/ includes(family, <<"i", "t", "a", "l", "i", "c">>) THEN "script"
    ELSE "sansSerif"

categorizeFontFamily(fontFamily) ==
    LET family == toLowerCase(fontFamily)
        hits == {k \in 1..Len(fontCategories) : ListMatches(fontCategories[k], family)}
    IN IF hits # {}
       THEN fontCategories[CHOOSE k \in hits : \A j \in hits : k <= j].category
       ELSE DefaultCategory(family)

\* The family names the inputs are drawn from
FamilyPool == {
    <<"T", "i", "m", "e", "s">>,
    <<"G", "E", "O", "R", "G", "I", "A">>,
    <<"A", "r", "i", "a", "l">>,
    <<"Z", "a", "p", "f", "i", "n", "o">>,
    <<"B", "r", "u", "s", "h", " ", "S", "c", "r", "i", "p", "t">>,
    <<"L", "a", "t", "o", " ", "I", "t", "a", "l", "i", "c">>,
    <<"M", "o", "n", "a", "c", "o">> }

\* categorizeFontFamily on the pool, computed once
CategoryOf == [f \in FamilyPool |-> categorizeFontFamily(f)]

null == [type |-> "null"]

\* ScriptClash that needs three script fonts
ScriptClashOffByOne(categories) ==
    /\ arrayIncludes(categories, "script")
    /\ Len(SelectSeq(categories, LAMBDA c : c = "script")) > 2

\* The test for the script-on-script error: categories.includes('script') &&
\* categories.filter(c => c === 'script').length > 1
ScriptClash(categories) ==
    /\ arrayIncludes(categories, "script")
    /\ Len(SelectSeq(categories, LAMBDA c : c = "script")) > 1

\* SingleCategory that lets an all-script selection through to the next test
SingleCategoryExceptScript(uniqueCategories) ==
    Len(uniqueCategories) = 1 /\ uniqueCategories[1] # "script"

\* uniqueCategories.length === 1
SingleCategory(uniqueCategories) == Len(uniqueCategories) = 1

analyzeFontPairing(els) ==
    LET fonts == Distinct([i \in 1..Len(els) |-> els[i].family])
        categories == [i \in 1..Len(fonts) |-> CategoryOf[fonts[i]]]
        uniqueCategories == Distinct(categories)
    IN IF Len(fonts) < 2 THEN null
       ELSE IF SingleCategory(uniqueCategories)
       THEN [type |-> "warning",
             category |-> "font-pairing",
             message |-> [text |-> "All fonts are from the same category",
                          args |-> <<uniqueCategories[1]>>],
             suggestions |-> <<"Try pairing serif with sans-serif fonts",
                               "Use different weights within the same font family",
                               "Consider a script or display font for headings">>]
       ELSE IF ScriptClash(categories)
       THEN [type |-> "error",
             category |-> "font-pairing",
             message |-> [text |-> "Multiple script fonts detected", args |-> << >>],
             suggestions |-> <<"Use only one script font per design",
                               "Pair script fonts with simple sans-serif or serif fonts",
                               "Reserve script fonts for headings or accents only">>]
       ELSE [type |-> "success",
             category |-> "font-pairing",
             message |-> [text |-> "Good font variety detected", args |-> uniqueCategories],
             suggestions |-> <<"Ensure sufficient size difference between font pairs",
                               "Test readability at final output size">>]

\* An element as getSelectedElements builds it, of family f and unremarkable otherwise
PlainElement(f) ==
    [family |-> f, fontSize |-> 12, lineHeight |-> 140,
     hasLineLength |-> TRUE, lineLength |-> 60, characterSpacing |-> 0]

MaxElements == 3

SeqsUpTo(S, n) == UNION {[1..k -> S] : k \in 0..n}

PairingInputs == SeqsUpTo({PlainElement(f) : f \in FamilyPool}, MaxElements)

\* The number of members of a equal to x
Count(a, x) == Cardinality({i \in 1..Len(a) : a[i] = x})

\* a and b hold the same elements the same number of times
SameMultiset(a, b) ==
    /\ Len(a) = Len(b)
    /\ \A i \in 1..Len(a) : Count(a, a[i]) = Count(b, a[i])

Families(els) == [i \in 1..Len(els) |-> els[i].family]

\* The orders in which the host may hand over the same selection
Reorderings(els) ==
    {q \in [1..Len(els) -> {els[i] : i \in 1..Len(els)}] : SameMultiset(q, els)}

\* One call of analyzeFontPairing, on the selection in some order; the call
\* before it is remembered.
CallAnalyzeFontPairing ==
    /\ op = "analyzeFontPairing"
    /\ \E q \in Reorderings(elements) :
         /\ elements' = q
         /\ result' = [called |-> "analyzeFontPairing", value |-> analyzeFontPairing(q)]
    /\ prevElements' = elements
    /\ prevResult' = result
    /\ UNCHANGED <<op, elementsGiven>>
    /\ UNCHANGED <<autoFitVars, formatVars, fixVars, boxVars>>

InitPairing ==
    /\ op = "analyzeFontPairing"
    /\ elements \in PairingInputs
    /\ elementsGiven = TRUE
    /\ result = [called |-> "none"]
    /\ prevElements = << >>
    /\ prevResult = [called |-> "none"]
    /\ AutoFitParked
    /\ FormatParked
    /\ FixParked
    /\ BoxParked

SpecPairing == InitPairing /\ [][CallAnalyzeFontPairing]_vars

(***************************************************************************)
(* analyzeFontPairing: the claims                                          *)
(***************************************************************************)
PairingCalled == result.called = "analyzeFontPairing"

\* The set of distinct families of the selection
FamilySet(els) == {els[i].family : i \in 1..Len(els)}

\* The families of the selection that map to the script category
ScriptFamilies(els) == {f \in FamilySet(els) : CategoryOf[f] = "script"}

\* The number of elements whose family maps to the script category
ScriptElements(els) ==
    Cardinality({i \in 1..Len(els) : CategoryOf[els[i].family] = "script"})

\* Every family of the selection maps to the same category
OneCategory(els) ==
    \A f, g \in FamilySet(els) : CategoryOf[f] = CategoryOf[g]

\* C5 (as claimed): with at least 2 elements whose family maps to script the
\* result has type error, whatever other categories are present.
C5_TwoScriptElementsGiveError ==
    (PairingCalled /\ ScriptElements(elements) >= 2) => result.value.type = "error"

\* C5 (amended): with at least 2 distinct families that map to script and at
\* least one family that maps to another category the result has type error.
C5_TwoScriptFamiliesAndAnotherGiveError ==
    (/\ PairingCalled
     /\ Cardinality(ScriptFamilies(elements)) >= 2
     /\ ~OneCategory(elements))
        => result.value.type = "error"

\* Two distinct script families beside a family of another category, analyzed.
C5_Witness ==
    /\ PairingCalled
    /\ Cardinality(ScriptFamilies(elements)) >= 2
    /\ ~OneCategory(elements)
    /\ result.value.type = "error"

\* C6 (as claimed): when every family maps to the same category the result
\* has type warning.
C6_OneCategoryGivesWarning ==
    (PairingCalled /\ OneCategory(elements)) => result.value.type = "warning"

\* C6 (amended): when there are at least 2 distinct families and every family
\* maps to the same category the result has type warning.
C6_TwoFamiliesOneCategoryGiveWarning ==
    (/\ PairingCalled
     /\ Cardinality(FamilySet(elements)) >= 2
     /\ OneCategory(elements))
        => result.value.type = "warning"

\* Two distinct script families and nothing else, analyzed: a warning.
C6_Witness ==
    /\ PairingCalled
    /\ Cardinality(ScriptFamilies(elements)) >= 2
    /\ OneCategory(elements)
    /\ result.value.type = "warning"

\* C7: with fewer than 2 distinct families (the empty selection, or any
\* number of elements sharing one family) analyzeFontPairing returns null.
C7_FewerThanTwoFamiliesGiveNull ==
    (PairingCalled /\ Cardinality(FamilySet(elements)) < 2) => result.value = null

\* Several elements sharing one family, analyzed.
C7_Witness ==
    /\ PairingCalled
    /\ Len(elements) >= 2
    /\ Cardinality(FamilySet(elements)) = 1
    /\ result.value = null

\* Two successive calls on selections with the same multiset of families
SameFamiliesTwice ==
    /\ PairingCalled
    /\ prevResult.called = "analyzeFontPairing"
    /\ SameMultiset(Families(elements), Families(prevElements))

\* The members of a sequence
Members(a) == {a[i] : i \in 1..Len(a)}

\* Two results that agree in everything but the order of the categories a
\* message lists
SameUpToListingOrder(r, s) ==
    \/ r = null /\ s = null
    \/ /\ r # null
       /\ s # null
       /\ r.type = s.type
       /\ r.category = s.category
       /\ r.suggestions = s.suggestions
       /\ r.message.text = s.message.text
       /\ Members(r.message.args) = Members(s.message.args)

\* C8 (as claimed): two selections with the same multiset of families yield
\* the same result, type and message included.
C8_SameFamiliesSameResult ==
    SameFamiliesTwice => result.value = prevResult.value

\* C8 (amended): two selections with the same multiset of families yield
\* results of the same type, category and suggestions, and the same message
\* up to the order in which a success message lists the categories.
C8_SameFamiliesSameResultUpToListingOrder ==
    SameFamiliesTwice => SameUpToListingOrder(result.value, prevResult.value)

\* The same selection analyzed in two orders, with two different success
\* messages.
C8_Witness ==
    /\ SameFamiliesTwice
    /\ elements # prevElements
    /\ result.value.type = "success"
    /\ prevResult.value.type = "success"
    /\ result.value # prevResult.value

(***************************************************************************)
(* analyzeReadability                                                      *)
(***************************************************************************)
\* Math.abs
Abs(x) == IF x < 0 THEN -x ELSE x

\* FontSizeCheck with the lower limit itself flagged
FontSizeCheckInclusive(element) ==
    IF element.fontSize <= readabilityRules.minFontSize
    THEN <<[issue |-> [text |-> "Font size is too small", value |-> element.fontSize],
            suggestion |-> "Increase font size to at least minFontSize"]>>
    ELSE IF element.fontSize > readabilityRules.maxFontSize
    THEN <<[issue |-> [text |-> "Font size may be too large for body text",
                       value |-> element.fontSize],
            suggestion |-> "Consider reducing font size for better readability"]>>
    ELSE << >>

\* Font size check: what it pushes onto issues and suggestions
FontSizeCheck(element) ==
    IF element.fontSize < readabilityRules.minFontSize
    THEN <<[issue |-> [text |-> "Font size is too small", value |-> element.fontSize],
            suggestion |-> "Increase font size to at least minFontSize"]>>
    ELSE IF element.fontSize > readabilityRules.maxFontSize
    THEN <<[issue |-> [text |-> "Font size may be too large for body text",
                       value |-> element.fontSize],
            suggestion |-> "Consider reducing font size for better readability"]>>
    ELSE << >>

\* Line height check
LineHeightCheck(element) ==
    IF element.lineHeight < readabilityRules.minLineHeight
    THEN <<[issue |-> [text |-> "Line height is too tight", value |-> element.lineHeight],
            suggestion |-> "Increase line height to at least minLineHeight"]>>
    ELSE IF element.lineHeight > readabilityRules.maxLineHeight
    THEN <<[issue |-> [text |-> "Line height is too loose", value |-> element.lineHeight],
            suggestion |-> "Reduce line height to around optimalLineHeight"]>>
    ELSE << >>

\* if (element.lineLength): the value is there and is not 0
LineLengthTruthy(element) == element.hasLineLength /\ element.lineLength # 0

\* Line length check (if available)
LineLengthCheck(element) ==
    IF ~LineLengthTruthy(element) THEN << >>
    ELSE IF element.lineLength < readabilityRules.minLineLength
    THEN <<[issue |-> [text |-> "Line length is too short", value |-> element.lineLength],
            suggestion |-> "Increase column width or font size"]>>
    ELSE IF element.lineLength > readabilityRules.maxLineLength
    THEN <<[issue |-> [text |-> "Line length is too long", value |-> element.lineLength],
            suggestion |-> "Reduce column width or use multi-column layout"]>>
    ELSE << >>

\* Character spacing check: element.characterSpacing && Math.abs(...) > 0.1
CharacterSpacingCheck(element) ==
    IF element.characterSpacing # 0 /\ Abs(element.characterSpacing) > 10
    THEN <<[issue |-> [text |-> "Extreme character spacing detected", value |-> 0],
            suggestion |-> "Reduce character spacing for better readability"]>>
    ELSE << >>

\* What the four checks push for one element, in the order of the checks
ElementFindings(element) ==
    FontSizeCheck(element) \o LineHeightCheck(element)
        \o LineLengthCheck(element) \o CharacterSpacingCheck(element)

\* The body of the forEach for the element at `index` (0-based): the results it pushes
ElementResults(element, index) ==
    LET found == ElementFindings(element)
    IN IF Len(found) > 0
       THEN <<[type |-> "warning",
               category |-> "readability",
               message |-> [element |-> index + 1,
                            issues |-> [k \in 1..Len(found) |-> found[k].issue]],
               suggestions |-> [k \in 1..Len(found) |-> found[k].suggestion]]>>
       ELSE << >>

analyzeReadability(els) ==
    LET RECURSIVE R(_)
        R(n) == IF n = 0 THEN << >> ELSE R(n - 1) \o ElementResults(els[n], n - 1)
    IN R(Len(els))

\* estimateLineLength: the longest line of the text, capped by
\* Math.floor(frameWidth / 7); lengths and width are natural numbers here
estimateLineLength(lineLengths, frameWidth) ==
    LET avgCharWidth == 7
        maxCharsPerLine == frameWidth \div avgCharWidth
        longest == IF lineLengths = {} THEN 0
                   ELSE CHOOSE n \in lineLengths : \A m \in lineLengths : m <= n
    IN IF longest < maxCharsPerLine THEN longest ELSE maxCharsPerLine

\* The values the fields of an analyzed element are drawn from
FontSizes == {8, 9, 72, 73}
LineHeights == {119, 120, 180, 181}
\* lineLength as the host estimates it: an empty text, and lines of 44 to 76
\* characters in a frame wide enough for them
LineLengths == {estimateLineLength({n}, 700) : n \in {0, 44, 45, 75, 76}}
CharacterSpacings == {-11, -10, 0, 10, 11}

Arial == <<"A", "r", "i", "a", "l">>

\* Elements with every combination of those values, with and without a lineLength
BoundaryElements ==
    {[family |-> Arial, fontSize |-> fs, lineHeight |-> lh, hasLineLength |-> TRUE,
      lineLength |-> ll, characterSpacing |-> cs] :
        fs \in FontSizes, lh \in LineHeights, ll \in LineLengths, cs \in CharacterSpacings}
    \cup
    {[family |-> Arial, fontSize |-> fs, lineHeight |-> lh, hasLineLength |-> FALSE,
      lineLength |-> 0, characterSpacing |-> cs] :
        fs \in FontSizes, lh \in LineHeights, cs \in CharacterSpacings}

\* A few elements for the longer selections: one without issues, one with a
\* small font, {fontSize: 6, lineHeight: 1.0}, and one with an empty text
SampleElements ==
    {PlainElement(Arial),
     [PlainElement(Arial) EXCEPT !.fontSize = 6],
     [PlainElement(Arial) EXCEPT !.fontSize = 6, !.lineHeight = 100,
                                 !.hasLineLength = FALSE, !.lineLength = 0],
     [PlainElement(Arial) EXCEPT !.lineLength = 0]}

ReadabilityInputs ==
    {<<e>> : e \in BoundaryElements} \cup SeqsUpTo(SampleElements, MaxElements)

\* One call of analyzeReadability on the selection
CallAnalyzeReadability ==
    /\ op = "analyzeReadability"
    /\ result' = [called |-> "analyzeReadability", value |-> analyzeReadability(elements)]
    /\ prevElements' = elements
    /\ prevResult' = result
    /\ UNCHANGED <<op, elements, elementsGiven>>
    /\ UNCHANGED <<autoFitVars, formatVars, fixVars, boxVars>>

InitReadability ==
    /\ op = "analyzeReadability"
    /\ elements \in ReadabilityInputs
    /\ elementsGiven = TRUE
    /\ result = [called |-> "none"]
    /\ prevElements = << >>
    /\ prevResult = [called |-> "none"]
    /\ AutoFitParked
    /\ FormatParked
    /\ FixParked
    /\ BoxParked

SpecReadability == InitReadability /\ [][CallAnalyzeReadability]_vars

(***************************************************************************)
(* analyzeReadability: the claims                                          *)
(***************************************************************************)
ReadabilityCalled == result.called = "analyzeReadability"

\* At least one of the four checks fails, as the thresholds are stated: the
\* line-length check counts whenever the element carries a lineLength.
SomeCheckFails(element) ==
    \/ element.fontSize < 9
    \/ element.fontSize > 72
    \/ element.lineHeight < 120
    \/ element.lineHeight > 180
    \/ element.hasLineLength /\ (element.lineLength < 45 \/ element.lineLength > 75)
    \/ Abs(element.characterSpacing) > 10

\* The 1-based positions of the elements with a failing check, in element order
FailingPositions(els) ==
    SelectSeq([i \in 1..Len(els) |-> i], LAMBDA i : SomeCheckFails(els[i]))

\* C9 (as claimed): analyzeReadability returns exactly one warning for each
\* element with at least one failing check and nothing for the others, in
\* element order, each message naming the element's 1-based position.
C9_OneWarningPerFailingElement ==
    ReadabilityCalled =>
        LET failing == FailingPositions(elements)
        IN /\ Len(result.value) = Len(failing)
           /\ \A k \in 1..Len(failing) :
                /\ k <= Len(result.value)
                /\ result.value[k].type = "warning"
                /\ result.value[k].message.element = failing[k]

\* Every value of the element is within its limits, the line length being
\* absent or within 45..75
WithinLimits(element) ==
    /\ element.fontSize >= 9
    /\ element.fontSize <= 72
    /\ element.lineHeight >= 120
    /\ element.lineHeight <= 180
    /\ Abs(element.characterSpacing) <= 10
    /\ ~element.hasLineLength \/ (element.lineLength >= 45 /\ element.lineLength <= 75)

\* C10: analyzeReadability returns no result for an element whose values are
\* all within their limits, the limits themselves included.
C10_NoResultWithinLimits ==
    ReadabilityCalled =>
        \A i \in 1..Len(elements) :
            WithinLimits(elements[i]) =>
                \A k \in 1..Len(result.value) : result.value[k].message.element # i

\* An element with every value on a limit, analyzed, beside elements that
\* do get a warning: nothing is returned for it.
C10_Witness ==
    /\ ReadabilityCalled
    /\ \E i \in 1..Len(elements) :
         /\ elements[i].fontSize \in {9, 72}
         /\ elements[i].lineHeight \in {120, 180}
         /\ elements[i].hasLineLength
         /\ elements[i].lineLength \in {45, 75}
         /\ Abs(elements[i].characterSpacing) = 10
         /\ \A k \in 1..Len(result.value) : result.value[k].message.element # i

\* The number of the four checks that fail for the element, as the
\* thresholds are stated
FailedChecks(element) ==
    (IF element.fontSize < 9 \/ element.fontSize > 72 THEN 1 ELSE 0)
    + (IF element.lineHeight < 120 \/ element.lineHeight > 180 THEN 1 ELSE 0)
    + (IF element.hasLineLength /\ (element.lineLength < 45 \/ element.lineLength > 75)
       THEN 1 ELSE 0)
    + (IF Abs(element.characterSpacing) > 10 THEN 1 ELSE 0)

\* C11 (as claimed): in every readability warning the number of issues in
\* the message and the number of suggestions both equal the number of failed
\* checks of the element the warning is about, which is between 1 and 4.
C11_IssuesMatchFailedChecks ==
    ReadabilityCalled =>
        \A k \in 1..Len(result.value) :
            LET r == result.value[k]
                n == FailedChecks(elements[r.message.element])
            IN /\ n \in 1..4
               /\ Len(r.message.issues) = n
               /\ Len(r.suggestions) = n

(***************************************************************************)
(* analyzeHierarchy                                                        *)
(*                                                                         *)
(* A ratio of two font sizes is kept as the pair [num, den] and compared   *)
(* with 1.15 and 3.0 by cross-multiplication, den being positive.          *)
(***************************************************************************)
\* a.sort((a, b) => b - a) that leaves the array as it is
SortDescendingMissing(a) == a

\* a.sort((a, b) => b - a): the numbers of a, largest first
SortDescending(a) ==
    LET RECURSIVE Insert(_, _)
        Insert(sorted, x) ==
            IF sorted = << >> THEN <<x>>
            ELSE IF x <= Head(sorted) THEN <<Head(sorted)>> \o Insert(Tail(sorted), x)
            ELSE <<x>> \o sorted
        RECURSIVE S(_)
        S(n) == IF n = 0 THEN << >> ELSE Insert(S(n - 1), a[n])
    IN S(Len(a))

\* ratio < 1.15 || ratio > 3.0
PoorRatio(ratio) == 100 * ratio.num < 115 * ratio.den \/ ratio.num > 3 * ratio.den

analyzeHierarchy(els) ==
    IF Len(els) < 2 THEN null
    ELSE
      LET fontSizes == SortDescending([i \in 1..Len(els) |-> els[i].fontSize])
          ratios == [i \in 1..(Len(fontSizes) - 1) |->
                        [num |-> fontSizes[i], den |-> fontSizes[i + 1]]]
          poorRatios == SelectSeq(ratios, PoorRatio)
      IN IF Len(poorRatios) > 0
         THEN [type |-> "info",
               category |-> "hierarchy",
               message |-> [text |-> "Typography hierarchy could be improved", args |-> << >>],
               suggestions |-> <<"Use consistent scale ratios (1.25x, 1.5x, 2x)",
                                 "Ensure minimum 1.2x difference between hierarchy levels",
                                 "Consider using weight and color for additional hierarchy">>]
         ELSE [type |-> "success",
               category |-> "hierarchy",
               message |-> [text |-> "Good typography hierarchy detected", args |-> << >>],
               suggestions |-> <<"Maintain consistent hierarchy across all pages",
                                 "Test hierarchy effectiveness with actual content">>]

\* The font sizes the selections are built from: 23/20 = 1.15 and 60/20 =
\* 69/23 = 3.0 are on the limits, 22/20 and 61/20 beyond them
HierarchySizes == {20, 22, 23, 60, 61, 69}

HierarchyInputs ==
    SeqsUpTo({[PlainElement(Arial) EXCEPT !.fontSize = fs] : fs \in HierarchySizes},
             MaxElements)

\* One call of analyzeHierarchy, on the selection in some order; the call
\* before it is remembered.
CallAnalyzeHierarchy ==
    /\ op = "analyzeHierarchy"
    /\ \E q \in Reorderings(elements) :
         /\ elements' = q
         /\ result' = [called |-> "analyzeHierarchy", value |-> analyzeHierarchy(q)]
    /\ prevElements' = elements
    /\ prevResult' = result
    /\ UNCHANGED <<op, elementsGiven>>
    /\ UNCHANGED <<autoFitVars, formatVars, fixVars, boxVars>>

InitHierarchy ==
    /\ op = "analyzeHierarchy"
    /\ elements \in HierarchyInputs
    /\ elementsGiven = TRUE
    /\ result = [called |-> "none"]
    /\ prevElements = << >>
    /\ prevResult = [called |-> "none"]
    /\ AutoFitParked
    /\ FormatParked
    /\ FixParked
    /\ BoxParked

SpecHierarchy == InitHierarchy /\ [][CallAnalyzeHierarchy]_vars

(***************************************************************************)
(* analyzeHierarchy: the claims                                            *)
(***************************************************************************)
HierarchyCalled == result.called = "analyzeHierarchy"

FontSizesOf(els) == [i \in 1..Len(els) |-> els[i].fontSize]

\* The numbers of a arranged largest first
Descending(a) ==
    CHOOSE d \in Reorderings(a) : \A i \in 1..(Len(d) - 1) : d[i] >= d[i + 1]

\* Every ratio d[i] / d[i+1] lies in [1.15, 3.0]
RatiosWithinRange(d) ==
    \A i \in 1..(Len(d) - 1) : 100 * d[i] >= 115 * d[i + 1] /\ d[i] <= 3 * d[i + 1]

\* C12: for at least 2 elements analyzeHierarchy returns success if every
\* consecutive ratio of the descending-sorted font sizes lies in [1.15, 3.0]
\* and info otherwise, and the same result for the same elements in another
\* order.
C12_SuccessIffRatiosWithinRange ==
    (HierarchyCalled /\ Len(elements) >= 2) =>
        /\ result.value.type =
             IF RatiosWithinRange(Descending(FontSizesOf(elements)))
             THEN "success" ELSE "info"
        /\ (prevResult.called = "analyzeHierarchy" /\ SameMultiset(elements, prevElements))
              => result.value = prevResult.value

\* Three sizes with both ratios on a limit (69/23 = 3.0, 23/20 = 1.15),
\* handed over unsorted and in two different orders: success both times.
C12_Witness ==
    /\ HierarchyCalled
    /\ prevResult.called = "analyzeHierarchy"
    /\ elements # prevElements
    /\ FontSizesOf(elements) = <<20, 69, 23>>
    /\ result.value.type = "success"

\* Two elements of equal size, analyzed: info.
C12_WitnessEqualSizes ==
    /\ HierarchyCalled
    /\ FontSizesOf(elements) = <<20, 20>>
    /\ result.value.type = "info"

(***************************************************************************)
(* analyzeElements and generateRecommendations                             *)
(*                                                                         *)
(* A call returns [called, threw, value]: threw is TRUE when the call      *)
(* ended in a TypeError (a property read of an undefined value) instead    *)
(* of a return value.                                                      *)
(***************************************************************************)
\* The result analyzeElements returns when there is nothing to analyze
NoElementsNotice ==
    [type |-> "warning",
     message |-> [text |-> "No text elements found to analyze", args |-> << >>],
     suggestions |-> <<"Select some text elements in Illustrator and try again">>]

\* EmptyGuard that reads elements.length without testing elements first
EmptyGuardLengthOnly(given, els) == given /\ Len(els) = 0

\* !elements || elements.length === 0
EmptyGuard(given, els) == ~given \/ Len(els) = 0

\* if (r) results.push(r)
PushIfNotNull(r) == IF r = null THEN << >> ELSE <<r>>

analyzeElements(given, els) ==
    IF EmptyGuard(given, els)
    THEN [called |-> "analyzeElements", threw |-> FALSE, value |-> <<NoElementsNotice>>]
    ELSE IF ~given
    THEN [called |-> "analyzeElements", threw |-> TRUE, value |-> << >>]
    ELSE [called |-> "analyzeElements", threw |-> FALSE,
          value |-> PushIfNotNull(analyzeFontPairing(els))
                      \o analyzeReadability(els)
                      \o PushIfNotNull(analyzeHierarchy(els))]

\* analysisResults.filter(r => r.type === t)
ResultsOfType(analysisResults, t) == SelectSeq(analysisResults, LAMBDA r : r.type = t)

\* if (errors.length > 0) recommendations.push(...)
HighRecommendation(errors) ==
    IF Len(errors) > 0
    THEN <<[priority |-> "high",
            message |-> [text |-> "critical typography issues need immediate attention",
                         count |-> Len(errors)],
            action |-> "Fix errors first before proceeding with design."]>>
    ELSE << >>

\* if (warnings.length > 0) recommendations.push(...)
MediumRecommendation(warnings) ==
    IF Len(warnings) > 0
    THEN <<[priority |-> "medium",
            message |-> [text |-> "typography improvements recommended",
                         count |-> Len(warnings)],
            action |-> "Review warnings to enhance design quality."]>>
    ELSE << >>

\* LowRecommendation that does not look at the warnings
LowRecommendationIgnoringWarnings(errors, warnings) ==
    IF Len(errors) = 0
    THEN <<[priority |-> "low",
            message |-> [text |-> "Typography looks good! No major issues detected.",
                         count |-> 0],
            action |-> "Consider fine-tuning details for perfection."]>>
    ELSE << >>

\* if (errors.length === 0 && warnings.length === 0) recommendations.push(...)
LowRecommendation(errors, warnings) ==
    IF Len(errors) = 0 /\ Len(warnings) = 0
    THEN <<[priority |-> "low",
            message |-> [text |-> "Typography looks good! No major issues detected.",
                         count |-> 0],
            action |-> "Consider fine-tuning details for perfection."]>>
    ELSE << >>

generateRecommendations(analysisResults) ==
    LET errors == ResultsOfType(analysisResults, "error")
        warnings == ResultsOfType(analysisResults, "warning")
    IN HighRecommendation(errors) \o MediumRecommendation(warnings)
         \o LowRecommendation(errors, warnings)

\* The elements the analyzed selections are built from: four families (two
\* of them script), sizes with good and poor ratios, one font that is too
\* small and one empty text
AnalyzeElementPool ==
    {[PlainElement(<<"T", "i", "m", "e", "s">>) EXCEPT !.fontSize = 20],
     [PlainElement(<<"T", "i", "m", "e", "s">>) EXCEPT !.fontSize = 20, !.lineLength = 0],
     [PlainElement(Arial) EXCEPT !.fontSize = 23],
     [PlainElement(Arial) EXCEPT !.fontSize = 61],
     [PlainElement(<<"B", "r", "u", "s", "h", " ", "S", "c", "r", "i", "p", "t">>) EXCEPT !.fontSize = 69],
     [PlainElement(<<"L", "a", "t", "o", " ", "I", "t", "a", "l", "i", "c">>) EXCEPT !.fontSize = 8]}

AnalyzeInputs == SeqsUpTo(AnalyzeElementPool, MaxElements)

\* One call of analyzeElements on the selection (or on nothing)
CallAnalyzeElements ==
    /\ op = "analyzeElements"
    /\ result' = analyzeElements(elementsGiven, elements)
    /\ prevElements' = elements
    /\ prevResult' = result
    /\ UNCHANGED <<op, elements, elementsGiven>>
    /\ UNCHANGED <<autoFitVars, formatVars, fixVars, boxVars>>

\* One call of generateRecommendations on the results at hand
CallGenerateRecommendations ==
    /\ op \in {"analyzeElements", "generateRecommendations"}
    /\ result.called \in {"analyzeElements", "given"}
    /\ ~result.threw
    /\ result' = [called |-> "generateRecommendations", threw |-> FALSE,
                  value |-> generateRecommendations(result.value)]
    /\ prevElements' = elements
    /\ prevResult' = result
    /\ UNCHANGED <<op, elements, elementsGiven>>
    /\ UNCHANGED <<autoFitVars, formatVars, fixVars, boxVars>>

InitAnalyze ==
    /\ op = "analyzeElements"
    /\ \/ elementsGiven = TRUE /\ elements \in AnalyzeInputs
       \/ elementsGiven = FALSE /\ elements = << >>
    /\ result = [called |-> "none", threw |-> FALSE, value |-> << >>]
    /\ prevElements = << >>
    /\ prevResult = [called |-> "none", threw |-> FALSE, value |-> << >>]
    /\ AutoFitParked
    /\ FormatParked
    /\ FixParked
    /\ BoxParked

SpecAnalyze == InitAnalyze /\ [][CallAnalyzeElements \/ CallGenerateRecommendations]_vars

MaxResults == 3

\* Results of each type, as the analyzers return them
SampleResults ==
    {analyzeFontPairing(<<PlainElement(<<"B", "r", "u", "s", "h", " ", "S", "c", "r", "i", "p", "t">>), PlainElement(<<"L", "a", "t", "o", " ", "I", "t", "a", "l", "i", "c">>),
                          PlainElement(Arial)>>),
     analyzeFontPairing(<<PlainElement(<<"T", "i", "m", "e", "s">>), PlainElement(<<"G", "E", "O", "R", "G", "I", "A">>)>>),
     analyzeFontPairing(<<PlainElement(<<"T", "i", "m", "e", "s">>), PlainElement(Arial)>>),
     analyzeReadability(<<[PlainElement(Arial) EXCEPT !.fontSize = 6]>>)[1],
     analyzeHierarchy(<<PlainElement(Arial), PlainElement(Arial)>>)}

ResultInputs == SeqsUpTo(SampleResults, MaxResults)

InitRecommend ==
    /\ op = "generateRecommendations"
    /\ elements = << >>
    /\ elementsGiven = TRUE
    /\ result \in {[called |-> "given", threw |-> FALSE, value |-> v] : v \in ResultInputs}
    /\ prevElements = << >>
    /\ prevResult = [called |-> "none", threw |-> FALSE, value |-> << >>]
    /\ AutoFitParked
    /\ FormatParked
    /\ FixParked
    /\ BoxParked

SpecRecommend == InitRecommend /\ [][CallGenerateRecommendations]_vars

(***************************************************************************)
(* Claims about generateRecommendations and analyzeElements                *)
(***************************************************************************)
RecommendCalled == result.called = "generateRecommendations"

AnalyzeCalled == result.called = "analyzeElements"

\* How many entries of a sequence carry the given value in the given field
WithPriority(recs, p) == Len(SelectSeq(recs, LAMBDA r : r.priority = p))

WithType(rs, t) == Cardinality({k \in 1..Len(rs) : rs[k].type = t})

\* C13: the recommendations hold a high-priority entry exactly when the
\* analysis results hold an error, a medium-priority entry exactly when they
\* hold a warning, and a low-priority entry exactly when they hold neither;
\* there is at most one entry per priority, high comes before medium, and
\* the recommendations are never empty.
C13_PrioritiesFollowResultTypes ==
    RecommendCalled =>
        LET given == prevResult.value
            recs == result.value
        IN /\ WithPriority(recs, "high") = (IF WithType(given, "error") > 0 THEN 1 ELSE 0)
           /\ WithPriority(recs, "medium") = (IF WithType(given, "warning") > 0 THEN 1 ELSE 0)
           /\ WithPriority(recs, "low") =
                 (IF WithType(given, "error") = 0 /\ WithType(given, "warning") = 0
                  THEN 1 ELSE 0)
           /\ \A k \in 1..Len(recs) : recs[k].priority \in {"high", "medium", "low"}
           /\ \A k, l \in 1..Len(recs) :
                 recs[k].priority = "high" /\ recs[l].priority = "medium" => k < l
           /\ recs # << >>

\* Results with an error, a warning and a success give high, then medium
C13_Witness ==
    /\ RecommendCalled
    /\ WithType(prevResult.value, "error") > 0
    /\ WithType(prevResult.value, "warning") > 0
    /\ WithType(prevResult.value, "success") > 0
    /\ Len(result.value) = 2
    /\ result.value[1].priority = "high"
    /\ result.value[2].priority = "medium"

\* Results with only success and info entries give the low recommendation
C13_WitnessLow ==
    /\ RecommendCalled
    /\ prevResult.value # << >>
    /\ Len(result.value) = 1
    /\ result.value[1].priority = "low"

\* The analyzer that produced the k-th result of a non-empty selection:
\* the font-pairing result if any comes first, the readability results
\* follow, the hierarchy result if any is last
Producer(els, k) ==
    LET pairing == Len(PushIfNotNull(analyzeFontPairing(els)))
        readability == Len(analyzeReadability(els))
    IN IF k <= pairing THEN "font-pairing"
       ELSE IF k <= pairing + readability THEN "readability"
       ELSE "hierarchy"

WellFormedResult(r) ==
    /\ "category" \in DOMAIN r
    /\ r.category \in {"font-pairing", "readability", "hierarchy"}
    /\ r.type # "success" => Len(r.suggestions) > 0

\* C14: every result analyzeElements returns, the one for an empty or
\* absent selection included, has a category among font-pairing,
\* readability and hierarchy, that category is the analyzer that produced
\* it, and a result that is not a success has at least one suggestion.
C14_EveryResultHasItsAnalyzersCategory ==
    AnalyzeCalled /\ ~result.threw =>
        \A k \in 1..Len(result.value) :
            /\ WellFormedResult(result.value[k])
            /\ elementsGiven /\ elements # << >> =>
                  result.value[k].category = Producer(elements, k)

\* The same statement for the selections that hold an element
C14_HoldsForNonEmptySelections ==
    AnalyzeCalled /\ elementsGiven /\ elements # << >> =>
        /\ ~result.threw
        /\ \A k \in 1..Len(result.value) :
              /\ WellFormedResult(result.value[k])
              /\ result.value[k].category = Producer(elements, k)

\* A selection that gets results of all three analyzers
C14_WitnessAllAnalyzers ==
    /\ AnalyzeCalled
    /\ \A c \in {"font-pairing", "readability", "hierarchy"} :
          \E k \in 1..Len(result.value) : result.value[k].category = c

C15_WitnessSingleton ==
    /\ AnalyzeCalled
    /\ elementsGiven
    /\ Len(elements) = 1
    /\ Len(result.value) = 1

(***************************************************************************)
(* TypographyAgent.batchFormatText                                         *)
(*                                                                         *)
(* A rule is a record of the properties a format rule may carry.  A        *)
(* property the rule does not carry (undefined) is << >>, one it carries    *)
(* with value v is <<v>>.  Texts, names and colours are sequences of       *)
(* 1-character strings; font names are atoms.  A number the host stores    *)
(* is [nan, v]: NaN is a value the multiplication can give.                *)
(***************************************************************************)
undefined == << >>

\* ToBoolean of a number-valued property: undefined and 0 are falsy
TruthyNumber(p) == p # undefined /\ p[1] # 0

\* ToBoolean of a text-valued property: undefined and "" are falsy
TruthyText(p) == p # undefined /\ p[1] # << >>

\* ToBoolean of a font name: undefined and "" are falsy
TruthyName(p) == p # undefined /\ p[1] # ""

Number(v) == [nan |-> FALSE, v |-> v]

NaN == [nan |-> TRUE, v |-> 0]

\* a * b of two number-valued properties: undefined converts to NaN
Product(a, b) == IF a = undefined \/ b = undefined THEN NaN ELSE Number(a[1] * b[1])

Digits == <<"0", "1", "2", "3", "4", "5", "6", "7", "8", "9">>

\* ToString of a natural number
RECURSIVE NumberToString(_)
NumberToString(n) ==
    IF n < 10 THEN <<Digits[n + 1]>>
    ELSE NumberToString(n \div 10) \o <<Digits[(n % 10) + 1]>>

HexDigits == <<"0", "1", "2", "3", "4", "5", "6", "7", "8", "9",
               "a", "b", "c", "d", "e", "f">>

\* parseInt(s, 16) of a text of hexadecimal digits
RECURSIVE parseInt16(_)
parseInt16(s) ==
    IF s = << >> THEN 0
    ELSE LET last == toLowerCase(<<s[Len(s)]>>)[1]
             digit == (CHOOSE k \in 1..Len(HexDigits) : HexDigits[k] = last) - 1
         IN 16 * parseInt16(SubSeq(s, 1, Len(s) - 1)) + digit

\* String.prototype.substring(from, to) for 0 <= from <= to <= length
substring(s, from, to) == SubSeq(s, from + 1, to)

\* The RGBColor built from "#rrggbb"
RGBColor(color) ==
    [red |-> parseInt16(substring(color, 1, 3)),
     green |-> parseInt16(substring(color, 3, 5)),
     blue |-> parseInt16(substring(color, 5, 7))]

\* app.textFonts: the fonts getByName finds
InstalledFonts == {"ArialMT", "TimesNewRomanPSMT"}

\* rule.headingThreshold || 18
HeadingThreshold(rule) ==
    IF TruthyNumber(rule.headingThreshold) THEN rule.headingThreshold[1] ELSE 18

\* The argument of indexOf as a string: undefined converts to "undefined"
SearchString(text) == IF text = undefined THEN <<"u", "n", "d", "e", "f", "i", "n", "e", "d">> ELSE text[1]

shouldApplyRule(textFrame, rule) ==
    CASE rule.selector = "all" -> TRUE
      [] rule.selector = "heading" -> textFrame.size > HeadingThreshold(rule)
      [] rule.selector = "body" -> textFrame.size <= HeadingThreshold(rule)
      [] rule.selector = "contains" -> includes(textFrame.contents, SearchString(rule.text))
      [] OTHER -> FALSE

\* One guarded write of applyFormattingRule that is not inside a try: st is
\* [frame, threw]; nothing happens after a throw or when the guard is
\* false, the write throws when the host rejects it
Write(st, guard, rejected, written) ==
    IF st.threw \/ ~guard THEN st
    ELSE IF rejected THEN [st EXCEPT !.threw = TRUE]
    ELSE [st EXCEPT !.frame = written]

\* WriteTextFont without the try around the font lookup and write
WriteTextFontUncaught(st, rule, fails) ==
    Write(st, TruthyName(rule.fontFamily),
          rule.fontFamily[1] \notin InstalledFonts \/ fails = "textFont",
          [st.frame EXCEPT !.textFont = rule.fontFamily[1]])

\* if (rule.fontFamily) { try { textFont = getByName(...) } catch (e) {} }
WriteTextFont(st, rule, fails) ==
    IF ~TruthyName(rule.fontFamily) THEN st
    ELSE IF rule.fontFamily[1] \notin InstalledFonts \/ fails = "textFont" THEN st
    ELSE [st EXCEPT !.frame.textFont = rule.fontFamily[1]]

\* applyFormattingRule on the attributes of one text range: the attributes
\* afterwards and whether the function threw
applyFormattingRule(textRange, rule, fails) ==
    LET st0 == [frame |-> textRange, threw |-> FALSE]
        st1 == WriteTextFont(st0, rule, fails)
        st2 == Write(st1, TruthyNumber(rule.fontSize), fails = "size",
                     [st1.frame EXCEPT !.size = rule.fontSize[1]])
        st3 == Write(st2, TruthyNumber(rule.lineHeight), fails = "leading",
                     [st2.frame EXCEPT !.leading = Product(rule.fontSize, rule.lineHeight)])
        st4 == Write(st3, TruthyNumber(rule.characterSpacing), fails = "tracking",
                     [st3.frame EXCEPT !.tracking = rule.characterSpacing[1]])
    IN Write(st4, TruthyText(rule.color), fails = "fillColor",
             [st4.frame EXCEPT !.fillColor = RGBColor(rule.color[1])])

\* rule.name || "rule_" + j
RuleId(rule, j) == IF TruthyText(rule.name) THEN rule.name[1] ELSE <<"r", "u", "l", "e", "_">> \o NumberToString(j)

\* The attributes of a text frame as the document holds them before the batch
Frame(contents, points) ==
    [contents |-> contents, textFont |-> "TimesNewRomanPSMT", size |-> points,
     leading |-> Number(points + 2), tracking |-> 20,
     fillColor |-> [red |-> 0, green |-> 0, blue |-> 0]]

\* A rule that carries a selector only
BareRule(selector) ==
    [name |-> undefined, selector |-> selector, headingThreshold |-> undefined,
     text |-> undefined, fontFamily |-> undefined, fontSize |-> undefined,
     lineHeight |-> undefined, characterSpacing |-> undefined, color |-> undefined]

HeadingThresholds == {undefined, <<0>>, <<18>>, <<30>>}

\* Rules of every selector with every threshold or text, each writing size 24
SelectorRules ==
    {[BareRule(s) EXCEPT !.headingThreshold = t, !.fontSize = <<24>>] :
        s \in {"heading", "body"}, t \in HeadingThresholds}
    \cup {[BareRule("contains") EXCEPT !.text = <<t>>, !.fontSize = <<24>>] :
            t \in {<<"S", "a">>, <<"x">>, << >>}}
    \cup {[BareRule(s) EXCEPT !.fontSize = <<24>>] : s \in {"all", "subheading"}}

\* Rules for every frame with every combination of properties, each
\* property being absent, zero or empty, or a proper value
PropertyRules ==
    {[BareRule("all") EXCEPT !.name = n, !.fontFamily = ff, !.fontSize = fs,
                             !.lineHeight = lh, !.characterSpacing = cs, !.color = c] :
        n \in {undefined, <<<<"T", "i", "t", "l", "e">>>>},
        ff \in {undefined, <<"ArialMT">>, <<"NoSuchFont">>},
        fs \in {undefined, <<0>>, <<24>>},
        lh \in {undefined, <<0>>, <<2>>},
        cs \in {undefined, <<0>>, <<50>>},
        c \in {undefined, <<<<"#", "3", "3", "6", "6", "F", "F">>>>}}

FramePool ==
    {Frame(<<"H", "i">>, 12), Frame(<<"H", "i">>, 16), Frame(<<"S", "a", "l", "e">>, 18), Frame(<<"S", "a", "l", "e">>, 20)}

HostFailures == {"none", "textFont", "size", "leading", "tracking", "fillColor"}

MaxRules == 2

MaxFrames == 2

\* The rules the longer rule lists are made of
SampleRules ==
    {[BareRule("all") EXCEPT !.name = <<<<"B", "a", "s", "e">>>>, !.fontFamily = <<"ArialMT">>,
                             !.fontSize = <<24>>, !.lineHeight = <<2>>,
                             !.characterSpacing = <<50>>, !.color = <<<<"#", "3", "3", "6", "6", "F", "F">>>>],
     [BareRule("all") EXCEPT !.characterSpacing = <<0>>],
     [BareRule("body") EXCEPT !.fontSize = <<24>>],
     [BareRule("heading") EXCEPT !.name = <<<<"H">>>>, !.fontSize = <<12>>],
     [BareRule("contains") EXCEPT !.text = <<<<"S", "a">>>>, !.fontFamily = <<"NoSuchFont">>,
                                  !.fontSize = <<30>>],
     [BareRule("subheading") EXCEPT !.fontSize = <<10>>]}

SampleFrames == {Frame(<<"H", "i">>, 12), Frame(<<"S", "a", "l", "e">>, 20)}

NoStep ==
    [tested |-> FALSE, frame |-> 0, rule |-> 0, before |-> Frame(<< >>, 0),
     matched |-> FALSE, threw |-> FALSE, matchedRules |-> << >>]

NotReturned == [called |-> FALSE, success |-> FALSE, processed |-> 0, error |-> ""]

InitFormat ==
    /\ op = "batchFormatText"
    /\ \/ /\ documentOpen = TRUE
          /\ rules \in {<<r>> : r \in SelectorRules \cup PropertyRules}
          /\ textFrames \in {<<f>> : f \in FramePool}
          /\ hostFails \in HostFailures
       \/ /\ documentOpen = TRUE
          /\ rules \in SeqsUpTo(SampleRules, MaxRules)
          /\ textFrames \in SeqsUpTo(SampleFrames, MaxFrames)
          /\ hostFails \in {"none", "textFont", "size"}
       \/ /\ documentOpen = FALSE
          /\ rules \in SeqsUpTo(SampleRules, 1)
          /\ textFrames = << >>
          /\ hostFails = "none"
    /\ batchPc = "start"
    /\ frameIdx = 0
    /\ ruleIdx = 0
    /\ appliedRules = << >>
    /\ results = << >>
    /\ returned = NotReturned
    /\ lastStep = NoStep
    /\ originalFrames = textFrames
    /\ AutoFitParked
    /\ AnalyzerParked
    /\ FixParked
    /\ BoxParked

\* The attributes of the frame the loops are at
CurrentFrame == textFrames[frameIdx + 1]

\* TestedFrame that answers with the attributes the frame had before the batch
TestedFrameOriginal(i) == originalFrames[i + 1]

\* The attributes shouldApplyRule reads for the frame at index i: those of
\* textFrames[i].textRange at the time of the test
TestedFrame(i) == textFrames[i + 1]

\* The rule the inner loop is at
CurrentRule == rules[ruleIdx + 1]

\* What the test of the current rule against the current frame is noted as
Step(matched, threw) ==
    [tested |-> TRUE, frame |-> frameIdx, rule |-> ruleIdx, before |-> CurrentFrame,
     matched |-> matched, threw |-> threw,
     matchedRules |-> IF matched THEN Append(lastStep.matchedRules, ruleIdx)
                      ELSE lastStep.matchedRules]

\* batchFormatText with no document open: the early failure return
NoDocument ==
    /\ op = "batchFormatText"
    /\ batchPc = "start"
    /\ ~documentOpen
    /\ returned' = [called |-> TRUE, success |-> FALSE, processed |-> 0,
                    error |-> "No document is open"]
    /\ batchPc' = "done"
    /\ UNCHANGED <<op, documentOpen, rules, textFrames, hostFails, frameIdx, ruleIdx,
                   appliedRules, results, lastStep>>
    /\ UNCHANGED <<originalFrames, autoFitVars, analyzerVars, fixVars, boxVars>>

\* The locals are set and the loop over the frames is entered
BeginBatch ==
    /\ op = "batchFormatText"
    /\ batchPc = "start"
    /\ documentOpen
    /\ results' = << >>
    /\ frameIdx' = 0
    /\ batchPc' = "frames"
    /\ UNCHANGED <<op, documentOpen, rules, textFrames, hostFails, ruleIdx,
                   appliedRules, returned, lastStep>>
    /\ UNCHANGED <<originalFrames, autoFitVars, analyzerVars, fixVars, boxVars>>

\* The body of the outer loop up to the inner loop
NextFrame ==
    /\ batchPc = "frames"
    /\ frameIdx < Len(textFrames)
    /\ appliedRules' = << >>
    /\ ruleIdx' = 0
    /\ lastStep' = [lastStep EXCEPT !.matchedRules = << >>]
    /\ batchPc' = "rules"
    /\ UNCHANGED <<op, documentOpen, rules, textFrames, hostFails, frameIdx,
                   results, returned>>
    /\ UNCHANGED <<originalFrames, autoFitVars, analyzerVars, fixVars, boxVars>>

\* One pass of the inner loop in which shouldApplyRule answers false
RuleSkipped ==
    /\ batchPc = "rules"
    /\ ruleIdx < Len(rules)
    /\ ~shouldApplyRule(TestedFrame(frameIdx), CurrentRule)
    /\ ruleIdx' = ruleIdx + 1
    /\ lastStep' = Step(FALSE, FALSE)
    /\ UNCHANGED <<op, documentOpen, rules, textFrames, hostFails, batchPc, frameIdx,
                   appliedRules, results, returned>>
    /\ UNCHANGED <<originalFrames, autoFitVars, analyzerVars, fixVars, boxVars>>

\* One pass of the inner loop in which the rule is applied
RuleApplied ==
    /\ batchPc = "rules"
    /\ ruleIdx < Len(rules)
    /\ shouldApplyRule(TestedFrame(frameIdx), CurrentRule)
    /\ LET outcome == applyFormattingRule(CurrentFrame, CurrentRule, hostFails)
       IN /\ ~outcome.threw
          /\ textFrames' = [textFrames EXCEPT ![frameIdx + 1] = outcome.frame]
    /\ appliedRules' = Append(appliedRules, RuleId(CurrentRule, ruleIdx))
    /\ ruleIdx' = ruleIdx + 1
    /\ lastStep' = Step(TRUE, FALSE)
    /\ UNCHANGED <<op, documentOpen, rules, hostFails, batchPc, frameIdx, results, returned>>
    /\ UNCHANGED <<originalFrames, autoFitVars, analyzerVars, fixVars, boxVars>>

\* One pass of the inner loop in which applyFormattingRule throws: the catch
\* around the loops returns the failure
RuleThrows ==
    /\ batchPc = "rules"
    /\ ruleIdx < Len(rules)
    /\ shouldApplyRule(TestedFrame(frameIdx), CurrentRule)
    /\ LET outcome == applyFormattingRule(CurrentFrame, CurrentRule, hostFails)
       IN /\ outcome.threw
          /\ textFrames' = [textFrames EXCEPT ![frameIdx + 1] = outcome.frame]
    /\ returned' = [called |-> TRUE, success |-> FALSE, processed |-> 0,
                    error |-> "Error: the host rejected the write"]
    /\ lastStep' = Step(TRUE, TRUE)
    /\ batchPc' = "done"
    /\ UNCHANGED <<op, documentOpen, rules, hostFails, frameIdx, ruleIdx, appliedRules,
                   results>>
    /\ UNCHANGED <<originalFrames, autoFitVars, analyzerVars, fixVars, boxVars>>

\* The end of the body of the outer loop
FrameDone ==
    /\ batchPc = "rules"
    /\ ruleIdx = Len(rules)
    /\ results' = Append(results, [index |-> frameIdx, appliedRules |-> appliedRules])
    /\ frameIdx' = frameIdx + 1
    /\ batchPc' = "frames"
    /\ UNCHANGED <<op, documentOpen, rules, textFrames, hostFails, ruleIdx, appliedRules,
                   returned, lastStep>>
    /\ UNCHANGED <<originalFrames, autoFitVars, analyzerVars, fixVars, boxVars>>

\* The return after the loops
ReturnSuccess ==
    /\ batchPc = "frames"
    /\ frameIdx = Len(textFrames)
    /\ returned' = [called |-> TRUE, success |-> TRUE, processed |-> Len(results),
                    error |-> ""]
    /\ batchPc' = "done"
    /\ UNCHANGED <<op, documentOpen, rules, textFrames, hostFails, frameIdx, ruleIdx,
                   appliedRules, results, lastStep>>
    /\ UNCHANGED <<originalFrames, autoFitVars, analyzerVars, fixVars, boxVars>>

BatchStep ==
    \/ NoDocument
    \/ BeginBatch
    \/ NextFrame
    \/ RuleSkipped
    \/ RuleApplied
    \/ RuleThrows
    \/ FrameDone
    \/ ReturnSuccess

SpecFormat == InitFormat /\ [][BatchStep]_vars

(***************************************************************************)
(* Claims about batchFormatText                                            *)
(***************************************************************************)
\* The rule and the frame of the last test, and the frame as it is now
TestedRule == rules[lastStep.rule + 1]

FrameBefore == lastStep.before

FrameAfter == textFrames[lastStep.frame + 1]

\* The last test has just been made: nothing else has happened since
JustTested ==
    /\ lastStep.tested
    /\ \/ batchPc = "rules" /\ frameIdx = lastStep.frame /\ ruleIdx = lastStep.rule + 1
       \/ lastStep.threw

\* The selector predicate of a rule with one of the four selectors, the
\* threshold being 18 when the rule gives none
SelectorHolds(rule, frame) ==
    LET threshold == IF rule.headingThreshold = undefined THEN 18
                     ELSE rule.headingThreshold[1]
    IN \/ rule.selector = "all"
       \/ rule.selector = "heading" /\ frame.size > threshold
       \/ rule.selector = "body" /\ frame.size <= threshold
       \/ /\ rule.selector = "contains"
          /\ rule.text # undefined
          /\ \E k \in 0..Len(frame.contents) :
                /\ k + Len(rule.text[1]) <= Len(frame.contents)
                /\ \A l \in 1..Len(rule.text[1]) : frame.contents[k + l] = rule.text[1][l]

\* C16: a rule with one of the selectors all, heading, body, contains is
\* applied to a frame exactly when its selector predicate holds, the
\* threshold defaulting to 18 only when the rule gives none; a rule that is
\* not applied leaves the frame untouched.
C16_AppliedExactlyWhenSelectorHolds ==
    lastStep.tested /\ TestedRule.selector \in {"all", "heading", "body", "contains"} =>
        /\ lastStep.matched <=> SelectorHolds(TestedRule, FrameBefore)
        /\ ~lastStep.matched => FrameAfter = FrameBefore

\* The same statement for the rules whose threshold is not 0
C16_HoldsForNonZeroThresholds ==
    /\ lastStep.tested
    /\ TestedRule.selector \in {"all", "heading", "body", "contains"}
    /\ TestedRule.headingThreshold # <<0>>
    => /\ lastStep.matched <=> SelectorHolds(TestedRule, FrameBefore)
       /\ ~lastStep.matched => FrameAfter = FrameBefore

\* The rule {heading, headingThreshold 18, fontSize 24} sets a frame of
\* size 20 to 24 and leaves a frame of size 16 untouched
C16_Example ==
    /\ JustTested
    /\ TestedRule = [BareRule("heading") EXCEPT !.headingThreshold = <<18>>,
                                                !.fontSize = <<24>>]
    /\ hostFails = "none"
    => /\ FrameBefore.size = 20 => FrameAfter.size = 24
       /\ FrameBefore.size = 16 => ~lastStep.matched /\ FrameAfter = FrameBefore

C16_ExampleWitness20 ==
    /\ JustTested
    /\ TestedRule = [BareRule("heading") EXCEPT !.headingThreshold = <<18>>,
                                                !.fontSize = <<24>>]
    /\ hostFails = "none"
    /\ FrameBefore.size = 20
    /\ FrameAfter.size = 24

C16_ExampleWitness16 ==
    /\ JustTested
    /\ TestedRule = [BareRule("heading") EXCEPT !.headingThreshold = <<18>>,
                                                !.fontSize = <<24>>]
    /\ hostFails = "none"
    /\ FrameBefore.size = 16
    /\ FrameAfter.size = 16

\* C17: when a rule has been applied to a frame (no write being rejected
\* by the host), every property the rule defines is on the frame, a
\* defined 0 included -- the font if the host knows it, the size, the
\* leading as fontSize x lineHeight, the tracking, the colour -- and every
\* property the rule leaves undefined is as it was; a lineHeight without a
\* fontSize leaves no NaN leading.
C17_DefinedPropertiesWrittenOthersKept ==
    JustTested /\ lastStep.matched /\ hostFails = "none" =>
        LET rule == TestedRule
        IN /\ ~lastStep.threw
           /\ FrameAfter.contents = FrameBefore.contents
           /\ FrameAfter.textFont =
                 (IF rule.fontFamily # undefined /\ rule.fontFamily[1] \in InstalledFonts
                  THEN rule.fontFamily[1] ELSE FrameBefore.textFont)
           /\ FrameAfter.size =
                 (IF rule.fontSize # undefined THEN rule.fontSize[1] ELSE FrameBefore.size)
           /\ rule.lineHeight = undefined => FrameAfter.leading = FrameBefore.leading
           /\ rule.lineHeight # undefined /\ rule.fontSize # undefined =>
                 FrameAfter.leading =
                     [nan |-> FALSE, v |-> rule.fontSize[1] * rule.lineHeight[1]]
           /\ ~FrameAfter.leading.nan
           /\ FrameAfter.tracking =
                 (IF rule.characterSpacing # undefined THEN rule.characterSpacing[1]
                  ELSE FrameBefore.tracking)
           /\ rule.color = undefined => FrameAfter.fillColor = FrameBefore.fillColor
           /\ rule.color = <<<<"#", "3", "3", "6", "6", "F", "F">>>> =>
                 FrameAfter.fillColor = [red |-> 51, green |-> 102, blue |-> 255]

\* The same statement for the rules that define no 0 and no lineHeight
\* without a fontSize
C17_HoldsForNonZeroValues ==
    /\ JustTested /\ lastStep.matched /\ hostFails = "none"
    /\ TestedRule.fontSize # <<0>>
    /\ TestedRule.lineHeight # <<0>>
    /\ TestedRule.characterSpacing # <<0>>
    /\ TestedRule.lineHeight # undefined => TestedRule.fontSize # undefined
    => C17_DefinedPropertiesWrittenOthersKept

\* All rules have been tested against the current frame
FrameFinished == batchPc = "rules" /\ ruleIdx = Len(rules)

\* The rules that matched the current frame, in the order they were tested
MatchedRules == [k \in 1..Len(lastStep.matchedRules) |-> rules[lastStep.matchedRules[k] + 1]]

\* The identifier of the rule at position j: its name, else rule_<j>
Identifier(j) ==
    IF rules[j + 1].name # undefined THEN rules[j + 1].name[1]
    ELSE <<"r", "u", "l", "e", "_">> \o NumberToString(j)

\* The positions in the matched rules of those that define the property
Defining(Property(_)) == {k \in 1..Len(MatchedRules) : Property(MatchedRules[k]) # undefined}

\* The last matched rule that defines the property
LastDefining(Property(_)) ==
    MatchedRules[CHOOSE k \in Defining(Property) : \A l \in Defining(Property) : l <= k]

FontSizeOf(rule) == rule.fontSize

CharacterSpacingOf(rule) == rule.characterSpacing

ColorOf(rule) == rule.color

\* C18: when all rules have been tested against a frame (no write being
\* rejected by the host), appliedRules lists exactly the rules that
\* matched, in order, by name or else by rule_<j>, and a property that
\* more than one matching rule defines has the value of the last matching
\* rule that defines it.
C18_LastMatchingRuleWins ==
    FrameFinished /\ hostFails = "none" =>
        /\ appliedRules = [k \in 1..Len(lastStep.matchedRules) |->
                              Identifier(lastStep.matchedRules[k])]
        /\ Cardinality(Defining(FontSizeOf)) > 1 =>
              CurrentFrame.size = LastDefining(FontSizeOf).fontSize[1]
        /\ Cardinality(Defining(CharacterSpacingOf)) > 1 =>
              CurrentFrame.tracking = LastDefining(CharacterSpacingOf).characterSpacing[1]
        /\ Cardinality(Defining(ColorOf)) > 1 =>
              CurrentFrame.fillColor = RGBColor(LastDefining(ColorOf).color[1])

\* The part of C18 about appliedRules
C18_AppliedRulesListMatchingRules ==
    FrameFinished /\ hostFails = "none" =>
        appliedRules = [k \in 1..Len(lastStep.matchedRules) |->
                           Identifier(lastStep.matchedRules[k])]

\* Two rules that write the size have matched; the second one's size stays
C18_WitnessSizeOverwritten ==
    /\ FrameFinished
    /\ hostFails = "none"
    /\ Cardinality(Defining(FontSizeOf)) > 1
    /\ MatchedRules[1].fontSize # MatchedRules[2].fontSize
    /\ CurrentFrame.size = MatchedRules[2].fontSize[1]
    /\ appliedRules = <<<<"B", "a", "s", "e">>, <<"H">>>>

\* C19: when the host rejects the write of a property, the batch is not
\* aborted: it returns success with every frame processed.
C19_HostFailureDoesNotAbortBatch ==
    returned.called /\ documentOpen /\ hostFails # "none" =>
        /\ returned.success
        /\ returned.processed = Len(textFrames)
        /\ \A k \in 1..Len(results) : results[k].index = k - 1

\* The same statement for the one write that is inside a try
C19_HoldsForTextFont ==
    returned.called /\ documentOpen /\ hostFails = "textFont" =>
        /\ returned.success
        /\ returned.processed = Len(textFrames)

\* The batch returns success when no rule that applies writes the
\* rejected property
C19_WitnessNoRejectedWrite ==
    /\ returned.called
    /\ returned.success
    /\ hostFails = "size"
    /\ Len(textFrames) = 2
    /\ Len(rules) = 2
    /\ results[1].appliedRules # << >>

\* The font named by the rule is one the host cannot resolve
UnresolvableFont(rule) ==
    rule.fontFamily # undefined /\ rule.fontFamily[1] \notin {"ArialMT", "TimesNewRomanPSMT"}

\* C20: when a rule that names a font the host cannot resolve is applied
\* (no other write being rejected), nothing is thrown and no failure is
\* returned, the frame's font is as it was, every other attribute is what
\* the same rule with a resolvable font gives -- the rule's size, leading,
\* tracking and colour are on the frame -- and the rule is the last entry
\* of appliedRules.
C20_UnresolvableFontSkipsOnlyFontWrite ==
    /\ lastStep.tested /\ lastStep.matched /\ UnresolvableFont(TestedRule)
    /\ hostFails \in {"none", "textFont"}
    => /\ ~lastStep.threw
       /\ returned.called => returned.success
       /\ JustTested =>
             LET rule == TestedRule
                 resolved == applyFormattingRule(FrameBefore,
                                 [rule EXCEPT !.fontFamily = <<"ArialMT">>], "none").frame
             IN /\ FrameAfter.textFont = FrameBefore.textFont
                /\ resolved.textFont = "ArialMT"
                /\ [FrameAfter EXCEPT !.textFont = ""] = [resolved EXCEPT !.textFont = ""]
                /\ rule.fontSize \notin {undefined, <<0>>} =>
                      FrameAfter.size = rule.fontSize[1]
                /\ rule.lineHeight \notin {undefined, <<0>>} /\ rule.fontSize # undefined =>
                      FrameAfter.leading =
                          [nan |-> FALSE, v |-> rule.fontSize[1] * rule.lineHeight[1]]
                /\ rule.characterSpacing \notin {undefined, <<0>>} =>
                      FrameAfter.tracking = rule.characterSpacing[1]
                /\ rule.color = <<<<"#", "3", "3", "6", "6", "F", "F">>>> =>
                      FrameAfter.fillColor = [red |-> 51, green |-> 102, blue |-> 255]
                /\ appliedRules # << >>
                /\ appliedRules[Len(appliedRules)] = Identifier(lastStep.rule)

\* A rule with an unresolvable font and every other property has been applied
C20_Witness ==
    /\ JustTested
    /\ lastStep.matched
    /\ UnresolvableFont(TestedRule)
    /\ hostFails = "none"
    /\ TestedRule.name = undefined
    /\ FrameBefore.size = 12
    /\ FrameAfter.textFont = "TimesNewRomanPSMT"
    /\ FrameAfter.size = 24
    /\ FrameAfter.leading = [nan |-> FALSE, v |-> 48]
    /\ FrameAfter.tracking = 50
    /\ FrameAfter.fillColor = [red |-> 51, green |-> 102, blue |-> 255]
    /\ appliedRules = <<<<"r", "u", "l", "e", "_", "0">>>>

\* The selectors shouldApplyRule knows
KnownSelectors == {"all", "heading", "body", "contains"}

\* The rules of the batch whose selector is none of the known ones
UnknownSelectorRules == {k \in 1..Len(rules) : rules[k].selector \notin KnownSelectors}

\* C21: a batch that holds a rule with an unknown selector (such as
\* "subheading") returns a failure to its caller instead of treating the
\* rule as one that matches nothing.
C21_UnknownSelectorIsReportedAsFailure ==
    returned.called /\ documentOpen /\ hostFails = "none" /\ UnknownSelectorRules # {} =>
        /\ ~returned.success
        /\ returned.error # ""

\* What the code does with such a rule: it is tested against every frame,
\* never matches, changes nothing, and the batch returns success
C21_UnknownSelectorSilentlySkipped ==
    /\ lastStep.tested /\ TestedRule.selector \notin KnownSelectors =>
          ~lastStep.matched /\ ~lastStep.threw /\ FrameAfter = FrameBefore
    /\ returned.called /\ documentOpen /\ hostFails = "none" => returned.success

\* A batch of the one rule {subheading, fontSize 24} has returned success
C21_WitnessSilentSuccess ==
    /\ returned.called
    /\ returned.success
    /\ Len(rules) = 1
    /\ rules[1].selector = "subheading"
    /\ Len(textFrames) = 1
    /\ results = <<[index |-> 0, appliedRules |-> << >>]>>

(***************************************************************************)
(* TypographyAgent.applyTypographyFix and applyHierarchyFix                *)
(*                                                                         *)
(* Font sizes and ratios are rational numbers [num, den] in lowest terms   *)
(* with a power of two as denominator, so that the products below are      *)
(* exactly the floating-point products of the script.                      *)
(***************************************************************************)
RECURSIVE GCD(_, _)
GCD(a, b) == IF b = 0 THEN a ELSE GCD(b, a % b)

Rat(n, d) == [num |-> n \div GCD(n, d), den |-> d \div GCD(n, d)]

RatTimes(a, b) == Rat(a.num * b.num, a.den * b.den)

RatLess(a, b) == a.num * b.den < b.num * a.den

\* Math.pow(base, exponent) for a natural exponent
RECURSIVE pow(_, _)
pow(base, exponent) ==
    IF exponent = 0 THEN Rat(1, 1) ELSE RatTimes(base, pow(base, exponent - 1))

\* parameters as IllustratorInterface.applyTypographyFix hands them over:
\* JSON.stringify makes a text of them and the script passes that text as a
\* string literal, which the host script never parses
ViaInterface(parameters) == [parameters EXCEPT !.kind = "string"]

\* parameters.<name> as the host script reads it: a property of an object
\* is its value, a property of a string is undefined
PropertyOf(parameters, name) ==
    IF parameters.kind = "object" THEN parameters[name] ELSE undefined

\* parameters.scaleRatio || 1.25
BaseRatio(parameters) ==
    IF PropertyOf(parameters, "scaleRatio") # undefined
       /\ PropertyOf(parameters, "scaleRatio")[1].num # 0
    THEN PropertyOf(parameters, "scaleRatio")[1]
    ELSE Rat(5, 4)

\* The entries {size, index} of the text frames of the selection, in
\* selection order (index is 0-based)
TextFrameEntries(sel) ==
    LET RECURSIVE E(_)
        E(n) == IF n = 0 THEN << >>
                ELSE IF sel[n].typename = "TextFrame"
                THEN Append(E(n - 1), [size |-> sel[n].size, index |-> n - 1])
                ELSE E(n - 1)
    IN E(Len(sel))

\* What textFrames.sort(function(a, b) { return b.size - a.size; }) may
\* leave: the entries largest first, entries of equal size in any order
SortResults(entries) ==
    {s \in [1..Len(entries) -> {entries[k] : k \in 1..Len(entries)}] :
        /\ \A k \in 1..Len(entries) : \E l \in 1..Len(s) : s[l] = entries[k]
        /\ \A k \in 1..(Len(s) - 1) : ~RatLess(s[k].size, s[k + 1].size)}

\* NewSize with the exponent counted from the largest frame upwards
NewSizeAscending(parameters, item, n, j) ==
    IF PropertyOf(parameters, "baseSize") # undefined
       /\ PropertyOf(parameters, "baseSize")[1].num # 0
    THEN RatTimes(PropertyOf(parameters, "baseSize")[1], pow(BaseRatio(parameters), j))
    ELSE item.size

\* parameters.baseSize ? parameters.baseSize * Math.pow(baseRatio, n - j - 1) : item.size
NewSize(parameters, item, n, j) ==
    IF PropertyOf(parameters, "baseSize") # undefined
       /\ PropertyOf(parameters, "baseSize")[1].num # 0
    THEN RatTimes(PropertyOf(parameters, "baseSize")[1], pow(BaseRatio(parameters), n - j - 1))
    ELSE item.size

\* applyHierarchyFix for one outcome of the sort: the results and the
\* selection afterwards
applyHierarchyFix(sel, parameters, sorted) ==
    LET n == Len(sorted)
        results0 == [j \in 1..n |->
                        [index |-> sorted[j].index, oldSize |-> sorted[j].size,
                         newSize |-> NewSize(parameters, sorted[j], n, j - 1)]]
        ResultOf(i) == results0[CHOOSE j \in 1..n : sorted[j].index = i]
    IN [results |-> results0,
        selection |-> [k \in 1..Len(sel) |->
                          IF sel[k].typename = "TextFrame"
                          THEN [sel[k] EXCEPT !.size = ResultOf(k - 1).newSize]
                          ELSE sel[k]]]

MaxSelection == 3

\* The items a selection is made of: text frames of three sizes and a path
SelectionItems ==
    {[typename |-> "TextFrame", size |-> Rat(s, 1)] : s \in {12, 18, 24}}
    \cup {[typename |-> "PathItem", size |-> Rat(0, 1)]}

HierarchyBaseSizes == {undefined, <<Rat(12, 1)>>, <<Rat(10, 1)>>}

ScaleRatios == {undefined, <<Rat(1, 2)>>, <<Rat(1, 1)>>, <<Rat(5, 4)>>, <<Rat(2, 1)>>}

\* The parameters objects a caller may build
ParameterObjects ==
    {[kind |-> "object", baseSize |-> b, scaleRatio |-> r] :
        b \in HierarchyBaseSizes, r \in ScaleRatios}

\* The calls: from the panel through IllustratorInterface, or of the host
\* script itself with an object or with no parameters at all
FixCalls ==
    {[called |-> TRUE, caller |-> c, documentOpen |-> d, fixType |-> t,
      parameters |-> IF c = "IllustratorInterface" THEN ViaInterface(p) ELSE p,
      given |-> p] :
        c \in {"IllustratorInterface", "host"}, d \in BOOLEAN,
        t \in {"hierarchy", "spacing"}, p \in ParameterObjects}
    \cup {[called |-> TRUE, caller |-> "host", documentOpen |-> TRUE, fixType |-> t,
           parameters |-> [kind |-> "undefined", baseSize |-> undefined,
                           scaleRatio |-> undefined],
           given |-> [kind |-> "undefined", baseSize |-> undefined,
                      scaleRatio |-> undefined]] : t \in {"hierarchy", "spacing"}}

\* UnknownFixTypeError without the fix type in the message
UnknownFixTypeErrorUnnamed(fixType) == <<"Error: Unknown fix type">>

\* new Error("Unknown fix type: " + fixType).toString()
UnknownFixTypeError(fixType) == <<"Error: Unknown fix type: ", fixType>>

Failure(error, applications) ==
    [called |-> TRUE, success |-> FALSE, error |-> error, fixType |-> "",
     results |-> << >>, applications |-> applications]

\* One call of applyTypographyFix with no document open
FixWithoutDocument ==
    /\ op = "applyTypographyFix"
    /\ ~fixCall.documentOpen
    /\ fixReturned' = Failure(<<"No document is open">>, 0)
    /\ prevSelection' = selection
    /\ UNCHANGED <<op, fixCall, selection>>
    /\ UNCHANGED <<autoFitVars, analyzerVars, formatVars, boxVars>>

\* One call with a fix type the switch does not know: the Error thrown in
\* the default branch is caught and returned
FixUnknownType ==
    /\ op = "applyTypographyFix"
    /\ fixCall.documentOpen
    /\ fixCall.fixType \notin {"kerning", "hierarchy", "readability", "alignment"}
    /\ fixReturned' = Failure(UnknownFixTypeError(fixCall.fixType), 0)
    /\ prevSelection' = selection
    /\ UNCHANGED <<op, fixCall, selection>>
    /\ UNCHANGED <<autoFitVars, analyzerVars, formatVars, boxVars>>

\* One call with fix type "hierarchy" and no parameters: reading
\* parameters.scaleRatio throws, which is caught and returned
FixHierarchyThrows ==
    /\ op = "applyTypographyFix"
    /\ fixCall.documentOpen
    /\ fixCall.fixType = "hierarchy"
    /\ fixCall.parameters.kind = "undefined"
    /\ fixReturned' = Failure(<<"TypeError: undefined is not an object">>, 0)
    /\ prevSelection' = selection
    /\ UNCHANGED <<op, fixCall, selection>>
    /\ UNCHANGED <<autoFitVars, analyzerVars, formatVars, boxVars>>

\* One call with fix type "hierarchy": applyHierarchyFix on the selection
FixHierarchy ==
    /\ op = "applyTypographyFix"
    /\ fixCall.documentOpen
    /\ fixCall.fixType = "hierarchy"
    /\ fixCall.parameters.kind # "undefined"
    /\ \E sorted \in SortResults(TextFrameEntries(selection)) :
          LET fix == applyHierarchyFix(selection, fixCall.parameters, sorted)
          IN /\ selection' = fix.selection
             /\ fixReturned' =
                   [called |-> TRUE, success |-> TRUE, error |-> << >>,
                    fixType |-> fixCall.fixType, results |-> fix.results,
                    applications |-> IF fixReturned.called /\ fixReturned.success
                                     THEN 2 ELSE 1]
    /\ prevSelection' = selection
    /\ UNCHANGED <<op, fixCall>>
    /\ UNCHANGED <<autoFitVars, analyzerVars, formatVars, boxVars>>

FixStep == FixWithoutDocument \/ FixUnknownType \/ FixHierarchyThrows \/ FixHierarchy

InitFix ==
    /\ op = "applyTypographyFix"
    /\ fixCall \in FixCalls
    /\ selection \in SeqsUpTo(SelectionItems, MaxSelection)
    /\ fixReturned = [called |-> FALSE, success |-> FALSE]
    /\ prevSelection = selection
    /\ AutoFitParked
    /\ AnalyzerParked
    /\ FormatParked
    /\ BoxParked

SpecFix == InitFix /\ [][FixStep]_vars

(***************************************************************************)
(* Claims about applyTypographyFix and applyHierarchyFix                   *)
(***************************************************************************)
FixTypes == {"kerning", "hierarchy", "readability", "alignment"}

\* C22 as stated: a call with a fix type outside kerning, hierarchy,
\* readability, alignment returns a failure whose error names the fix type
\* and changes no element of the selection.
C22_UnknownFixTypeFailureNamesType ==
    fixReturned.called /\ fixCall.fixType \notin FixTypes =>
        /\ ~fixReturned.success
        /\ \E k \in 1..Len(fixReturned.error) : fixReturned.error[k] = fixCall.fixType
        /\ selection = prevSelection

\* C22, amended: with a document open, a call with a fix type outside
\* kerning, hierarchy, readability, alignment returns a failure whose error
\* names the fix type; with no document open it returns the failure "No
\* document is open"; either way no element of the selection is changed.
C22_UnknownFixTypeFailureWithDocumentNamesType ==
    fixReturned.called /\ fixCall.fixType \notin FixTypes =>
        /\ ~fixReturned.success
        /\ fixReturned.results = << >>
        /\ fixCall.documentOpen =>
              \E k \in 1..Len(fixReturned.error) : fixReturned.error[k] = fixCall.fixType
        /\ ~fixCall.documentOpen => fixReturned.error = <<"No document is open">>
        /\ selection = prevSelection

\* The fix type "spacing" has been asked for on a selection of three text frames
C22_Witness ==
    /\ fixReturned.called
    /\ fixCall.documentOpen
    /\ fixCall.fixType = "spacing"
    /\ fixCall.parameters.kind = "object"
    /\ fixCall.parameters.baseSize # undefined
    /\ Len(selection) = 3
    /\ \A k \in 1..3 : selection[k].typename = "TextFrame"
    /\ fixReturned.error = <<"Error: Unknown fix type: ", "spacing">>

\* A hierarchy fix has returned its results
HierarchyFixed == fixReturned.called /\ fixReturned.success

\* baseSize as applyHierarchyFix receives it
BaseSizeSupplied ==
    fixCall.parameters.kind = "object" /\ fixCall.parameters.baseSize # undefined

\* scaleRatio as applyHierarchyFix receives it, 1.25 when there is none
RatioUsed ==
    IF fixCall.parameters.kind = "object" /\ fixCall.parameters.scaleRatio # undefined
    THEN fixCall.parameters.scaleRatio[1]
    ELSE [num |-> 5, den |-> 4]

\* The number of text frames in the selection
TextFrameCount == Cardinality({k \in 1..Len(selection) : selection[k].typename = "TextFrame"})

\* C23: the results of a hierarchy fix list every text frame once, largest
\* old size first, each with its index in the selection and its old size;
\* with baseSize supplied the frame of rank k among n gets
\* baseSize * scaleRatio^(n-1-k), scaleRatio being 1.25 when not given; with
\* no baseSize every size stays; the frames carry the new sizes.
C23_RankedGeometricSizes ==
    HierarchyFixed =>
        LET res == fixReturned.results
            n == Len(res)
        IN /\ n = TextFrameCount
           /\ \A k, l \in 1..n : k # l => res[k].index # res[l].index
           /\ \A k \in 1..n :
                 /\ prevSelection[res[k].index + 1].typename = "TextFrame"
                 /\ res[k].oldSize = prevSelection[res[k].index + 1].size
                 /\ selection[res[k].index + 1].size = res[k].newSize
                 /\ k < n => ~RatLess(res[k].oldSize, res[k + 1].oldSize)
                 /\ res[k].newSize =
                       (IF BaseSizeSupplied
                        THEN RatTimes(fixCall.parameters.baseSize[1], pow(RatioUsed, n - k))
                        ELSE res[k].oldSize)
           /\ \A k \in 1..Len(selection) :
                 selection[k].typename # "TextFrame" => selection[k] = prevSelection[k]

\* Sizes [24, 18, 12] with ratio 1.25 and base 12 have become [18.75, 15, 12]
C23_Witness ==
    /\ HierarchyFixed
    /\ fixCall.parameters.kind = "object"
    /\ fixCall.parameters.baseSize = <<[num |-> 12, den |-> 1]>>
    /\ fixCall.parameters.scaleRatio = <<[num |-> 5, den |-> 4]>>
    /\ Len(prevSelection) = 3
    /\ \A k \in 1..3 : prevSelection[k].size = [num |-> 36 - 6 * (k + 1), den |-> 1]
    /\ selection[1].size = [num |-> 75, den |-> 4]
    /\ selection[2].size = [num |-> 15, den |-> 1]
    /\ selection[3].size = [num |-> 12, den |-> 1]

\* The default ratio is used, and a path in the selection shifts the indices
C23_WitnessDefaultRatio ==
    /\ HierarchyFixed
    /\ BaseSizeSupplied
    /\ fixCall.parameters.scaleRatio = undefined
    /\ Len(selection) = 3
    /\ selection[1].typename = "PathItem"
    /\ fixReturned.results[1].index = 2
    /\ fixReturned.results[1].newSize = [num |-> 15, den |-> 1]

\* The new sizes in rank order fall strictly, each the ratio times the next
StrictlyDecreasingGeometric(res, ratio) ==
    \A k \in 1..(Len(res) - 1) :
        /\ RatLess(res[k + 1].newSize, res[k].newSize)
        /\ res[k].newSize = RatTimes(ratio, res[k + 1].newSize)

\* C24: after a hierarchy fix with a baseSize, the new sizes from the
\* previously largest frame to the previously smallest are a strictly
\* decreasing geometric progression, for every scaleRatio the fix accepts
\* and every selection, equal sizes included.
C24_NewSizesStrictlyDecreasing ==
    HierarchyFixed /\ BaseSizeSupplied =>
        StrictlyDecreasingGeometric(fixReturned.results, RatioUsed)

\* The same statement for the ratios above 1
C24_HoldsForRatiosAboveOne ==
    HierarchyFixed /\ BaseSizeSupplied /\ RatLess([num |-> 1, den |-> 1], RatioUsed) =>
        StrictlyDecreasingGeometric(fixReturned.results, RatioUsed)

\* Three frames of equal size have been scaled with ratio 2
C24_WitnessEqualSizes ==
    /\ HierarchyFixed
    /\ BaseSizeSupplied
    /\ RatioUsed = [num |-> 2, den |-> 1]
    /\ Len(fixReturned.results) = 3
    /\ \A k \in 1..3 : fixReturned.results[k].oldSize = [num |-> 18, den |-> 1]
    /\ StrictlyDecreasingGeometric(fixReturned.results, RatioUsed)

\* C25: a second hierarchy fix with the same baseSize and scaleRatio on
\* the output of the first leaves every size as the first left it.
C25_SecondApplicationChangesNothing ==
    HierarchyFixed /\ fixReturned.applications = 2 => selection = prevSelection

\* The same statement for the ratios that are not below 1
C25_HoldsForRatiosFromOne ==
    HierarchyFixed /\ fixReturned.applications = 2
    /\ ~RatLess(RatioUsed, [num |-> 1, den |-> 1])
    => selection = prevSelection

\* A second fix of frames that were of equal size has changed nothing
C25_WitnessSecondApplication ==
    /\ HierarchyFixed
    /\ fixReturned.applications = 2
    /\ BaseSizeSupplied
    /\ Len(selection) = 2
    /\ selection = prevSelection
    /\ selection[1].size # selection[2].size
    /\ \A k \in 1..2 : fixReturned.results[k].oldSize = fixReturned.results[k].newSize

\* C30: a hierarchy fix asked for through IllustratorInterface with a
\* baseSize (and a scaleRatio) gives the frame of rank k among n the size
\* baseSize * scaleRatio^(n-1-k), not its old size.
C30_InterfaceParametersReachTheFix ==
    /\ HierarchyFixed
    /\ fixCall.caller = "IllustratorInterface"
    /\ fixCall.given.baseSize # undefined
    => LET res == fixReturned.results
           n == Len(res)
           ratio == IF fixCall.given.scaleRatio # undefined
                    THEN fixCall.given.scaleRatio[1] ELSE [num |-> 5, den |-> 4]
       IN \A k \in 1..n :
              res[k].newSize = RatTimes(fixCall.given.baseSize[1], pow(ratio, n - k))

\* What the code does for such a call: every size stays
C30_InterfaceFixChangesNothing ==
    HierarchyFixed /\ fixCall.caller = "IllustratorInterface" =>
        /\ selection = prevSelection
        /\ \A k \in 1..Len(fixReturned.results) :
              fixReturned.results[k].newSize = fixReturned.results[k].oldSize

\* The example of the spec asked for through the interface: nothing changes
C30_WitnessNothingRescaled ==
    /\ HierarchyFixed
    /\ fixCall.caller = "IllustratorInterface"
    /\ fixCall.given.baseSize = <<[num |-> 12, den |-> 1]>>
    /\ fixCall.given.scaleRatio = <<[num |-> 5, den |-> 4]>>
    /\ Len(selection) = 3
    /\ \A k \in 1..3 : selection[k].size = [num |-> 36 - 6 * (k + 1), den |-> 1]

(***************************************************************************)
(* TypographyAgent.autoAdjustTextBoxes                                     *)
(*                                                                         *)
(* An item of the selection is [typename, width, height, left, top].  The  *)
(* auto-fit step changes the font size of a frame (see autoFitText above)  *)
(* and none of these four attributes.  params.adjustments is << >> when    *)
(* absent, else <<list>>; an entry of the list is << >> when absent, else  *)
(* <<[width, height, left, top]>> with each property << >> or <<v>>.       *)
(***************************************************************************)
\* adjustmentParams.adjustments && adjustmentParams.adjustments[i], for the 0-based index i
AdjustmentFor(adjustmentParams, i) ==
    IF adjustmentParams.adjustments = undefined THEN undefined
    ELSE IF i + 1 > Len(adjustmentParams.adjustments[1]) THEN undefined
    ELSE adjustmentParams.adjustments[1][i + 1]

\* if (adj.width) textFrame.width = adj.width, and the same for height
AdjustSize(current, given) == IF TruthyNumber(given) THEN given[1] ELSE current

\* if (adj.left !== undefined) textFrame.left = adj.left, and the same for top
AdjustPosition(current, given) == IF given # undefined THEN given[1] ELSE current

Bounds(item) ==
    [width |-> item.width, height |-> item.height, left |-> item.left, top |-> item.top]

\* The body of the loop for the item at index i: the item afterwards
AdjustedItem(adjustmentParams, item, i) ==
    LET entry == AdjustmentFor(adjustmentParams, i)
    IN IF item.typename # "TextFrame" \/ entry = undefined THEN item
       ELSE [item EXCEPT !.width = AdjustSize(item.width, entry[1].width),
                         !.height = AdjustSize(item.height, entry[1].height),
                         !.left = AdjustPosition(item.left, entry[1].left),
                         !.top = AdjustPosition(item.top, entry[1].top)]

\* The results pushed for the text frames of the selection, in order
RECURSIVE BoxResults(_, _, _)
BoxResults(adjustmentParams, items, n) ==
    IF n = 0 THEN << >>
    ELSE IF items[n].typename = "TextFrame"
    THEN Append(BoxResults(adjustmentParams, items, n - 1),
                [index |-> n - 1, success |-> TRUE, autoFitted |-> adjustmentParams.autoFit,
                 original |-> Bounds(items[n]),
                 final |-> Bounds(AdjustedItem(adjustmentParams, items[n], n - 1))])
    ELSE BoxResults(adjustmentParams, items, n - 1)

MaxBoxes == 2

BoxItems ==
    {[typename |-> "TextFrame", width |-> 100, height |-> 50, left |-> 10, top |-> 20],
     [typename |-> "PathItem", width |-> 40, height |-> 40, left |-> 5, top |-> 5]}

\* Entries with every combination of absent, zero and proper values
AdjustmentEntries ==
    {<<[width |-> w, height |-> h, left |-> l, top |-> t]>> :
        w \in {undefined, <<0>>, <<200>>}, h \in {undefined, <<0>>, <<80>>},
        l \in {undefined, <<0>>, <<30>>}, t \in {undefined, <<0>>, <<-15>>}}
    \cup {undefined}

SampleEntries ==
    {undefined,
     <<[width |-> <<200>>, height |-> <<80>>, left |-> <<0>>, top |-> <<0>>]>>,
     <<[width |-> <<0>>, height |-> undefined, left |-> <<30>>, top |-> undefined]>>}

BoxCalls ==
    {[called |-> TRUE, documentOpen |-> d, autoFit |-> a, adjustments |-> adj] :
        d \in BOOLEAN, a \in BOOLEAN,
        adj \in {undefined} \cup {<<list>> : list \in SeqsUpTo(SampleEntries, MaxBoxes)}
                 \cup {<<(<<e>>)>> : e \in AdjustmentEntries}}

\* One call of autoAdjustTextBoxes with no document open
BoxWithoutDocument ==
    /\ op = "autoAdjustTextBoxes"
    /\ ~boxReturned.called
    /\ ~boxCall.documentOpen
    /\ boxReturned' = [called |-> TRUE, success |-> FALSE, processed |-> 0,
                       error |-> "No document is open", results |-> << >>,
                       before |-> boxFrames]
    /\ UNCHANGED <<op, boxCall, boxFrames>>
    /\ UNCHANGED <<autoFitVars, analyzerVars, formatVars, fixVars>>

\* One call of autoAdjustTextBoxes on the selection
AdjustTextBoxes ==
    /\ op = "autoAdjustTextBoxes"
    /\ ~boxReturned.called
    /\ boxCall.documentOpen
    /\ boxFrames' = [k \in 1..Len(boxFrames) |-> AdjustedItem(boxCall, boxFrames[k], k - 1)]
    /\ boxReturned' = [called |-> TRUE, success |-> TRUE,
                       processed |-> Len(BoxResults(boxCall, boxFrames, Len(boxFrames))),
                       error |-> "",
                       results |-> BoxResults(boxCall, boxFrames, Len(boxFrames)),
                       before |-> boxFrames]
    /\ UNCHANGED <<op, boxCall>>
    /\ UNCHANGED <<autoFitVars, analyzerVars, formatVars, fixVars>>

InitBox ==
    /\ op = "autoAdjustTextBoxes"
    /\ boxCall \in BoxCalls
    /\ boxFrames \in SeqsUpTo(BoxItems, MaxBoxes)
    /\ boxReturned = [called |-> FALSE, success |-> FALSE]
    /\ AutoFitParked
    /\ AnalyzerParked
    /\ FormatParked
    /\ FixParked

SpecBox == InitBox /\ [][BoxWithoutDocument \/ AdjustTextBoxes]_vars

(***************************************************************************)
(* Claims about autoAdjustTextBoxes                                        *)
(***************************************************************************)
\* The entry of params.adjustments for the item at position k (1-based), if any
EntryAt(k) ==
    IF boxCall.adjustments = undefined THEN undefined
    ELSE IF k > Len(boxCall.adjustments[1]) THEN undefined
    ELSE boxCall.adjustments[1][k]

\* The result reported for the item at position k
ResultAt(k) ==
    boxReturned.results[CHOOSE r \in 1..Len(boxReturned.results) :
                            boxReturned.results[r].index = k - 1]

\* The property of the entry is absent, or the frame and the reported final
\* bounds carry its value
Overridden(k, name) ==
    EntryAt(k)[1][name] # undefined =>
        /\ Bounds(boxFrames[k])[name] = EntryAt(k)[1][name][1]
        /\ ResultAt(k).final[name] = EntryAt(k)[1][name][1]

\* C26: after autoAdjustTextBoxes, for every text frame with an entry in
\* params.adjustments, each of width, height, left and top the entry gives
\* is on the frame and in the reported final bounds, whether or not the
\* auto-fit ran and whatever the value, 0 included.
C26_OverridesAlwaysWritten ==
    boxReturned.called /\ boxReturned.success =>
        \A k \in 1..Len(boxFrames) :
            boxFrames[k].typename = "TextFrame" /\ EntryAt(k) # undefined =>
                \A name \in {"width", "height", "left", "top"} : Overridden(k, name)

\* The same statement for left and top, and for a width and height other than 0
C26_HoldsExceptZeroSizes ==
    boxReturned.called /\ boxReturned.success =>
        \A k \in 1..Len(boxFrames) :
            boxFrames[k].typename = "TextFrame" /\ EntryAt(k) # undefined =>
                /\ Overridden(k, "left")
                /\ Overridden(k, "top")
                /\ EntryAt(k)[1].width # <<0>> => Overridden(k, "width")
                /\ EntryAt(k)[1].height # <<0>> => Overridden(k, "height")

\* A frame has been given width 200, height 80, left 0 and top 0 after an auto-fit
C26_WitnessOverridesWritten ==
    /\ boxReturned.called
    /\ boxReturned.success
    /\ boxCall.autoFit
    /\ Len(boxFrames) = 2
    /\ boxFrames[2].typename = "TextFrame"
    /\ EntryAt(2) # undefined
    /\ ResultAt(2).original = [width |-> 100, height |-> 50, left |-> 10, top |-> 20]
    /\ ResultAt(2).final = [width |-> 200, height |-> 80, left |-> 0, top |-> 0]

(***************************************************************************)
(* Repeated calls of the analyzers on one element sequence                 *)
(*                                                                         *)
(* The one statement of the analyzers that changes an array in place is    *)
(* the sort of analyzeHierarchy; it sorts the array elements.map(...)      *)
(* builds.  prevResult holds, for each function, its first and its latest  *)
(* return value.                                                           *)
(***************************************************************************)
AnalyzerFunctions ==
    {"analyzeElements", "analyzeFontPairing", "analyzeReadability", "analyzeHierarchy",
     "generateRecommendations"}

\* The element sequence after a sort of the elements themselves by size
ElementsSortedInPlace(els) ==
    LET RECURSIVE Insert(_, _)
        Insert(sorted, e) ==
            IF sorted = << >> THEN <<e>>
            ELSE IF Head(sorted).fontSize >= e.fontSize
            THEN <<Head(sorted)>> \o Insert(Tail(sorted), e)
            ELSE <<e>> \o sorted
        RECURSIVE S(_)
        S(n) == IF n = 0 THEN << >> ELSE Insert(S(n - 1), els[n])
    IN S(Len(els))

\* The element sequence after elements.map(el => el.fontSize).sort(...):
\* the sort reorders the mapped copy, the elements stay as they are
ElementsAfterSort(els) == els

\* The element sequence after a call of the function
ElementsAfter(fn, els) ==
    IF fn \in {"analyzeHierarchy", "analyzeElements"} /\ Len(els) >= 2
    THEN ElementsAfterSort(els)
    ELSE els

\* What a call of the function on the element sequence returns
Returned(fn, els) ==
    CASE fn = "analyzeElements" -> analyzeElements(TRUE, els).value
      [] fn = "analyzeFontPairing" -> PushIfNotNull(analyzeFontPairing(els))
      [] fn = "analyzeReadability" -> analyzeReadability(els)
      [] fn = "analyzeHierarchy" -> PushIfNotNull(analyzeHierarchy(els))
      [] fn = "generateRecommendations" ->
            generateRecommendations(analyzeElements(TRUE, els).value)

NotCalled == [called |-> FALSE, first |-> << >>, latest |-> << >>]

\* One call of any of the functions on the element sequence as it is now
CallAgain ==
    /\ op = "repeatedCalls"
    /\ \E fn \in AnalyzerFunctions :
          /\ result' = [called |-> fn, threw |-> FALSE, value |-> Returned(fn, elements)]
          /\ elements' = ElementsAfter(fn, elements)
          /\ prevResult' =
                [prevResult EXCEPT ![fn] =
                    [called |-> TRUE,
                     first |-> IF prevResult[fn].called THEN prevResult[fn].first
                               ELSE Returned(fn, elements),
                     latest |-> Returned(fn, elements)]]
    /\ UNCHANGED <<op, elementsGiven, prevElements>>
    /\ UNCHANGED <<autoFitVars, formatVars, fixVars, boxVars>>

InitRepeat ==
    /\ op = "repeatedCalls"
    /\ elementsGiven = TRUE
    /\ elements \in AnalyzeInputs
    /\ prevElements = elements
    /\ result = [called |-> "none", threw |-> FALSE, value |-> << >>]
    /\ prevResult = [fn \in AnalyzerFunctions |-> NotCalled]
    /\ AutoFitParked
    /\ FormatParked
    /\ FixParked
    /\ BoxParked

SpecRepeat == InitRepeat /\ [][CallAgain]_vars

BeforeGrowth(s) == [s EXCEPT !.up = @ - 1]

\* C28: in the grow phase, when the frame overflows right after a growth
\* step (x 1.05), exactly one x 0.95 follows and autoFitText is over, with
\* no further change of the size; the size left is 0.95 x 1.05 = 0.9975
\* times the size before the growth step, strictly below it.
C28_OvershootLeavesSizeBelowPreStep ==
    [][/\ pc = "grow" /\ pc' = "growCheck" => size' = TimesUp(size)
       /\ pc = "growCheck" /\ overflowed' =>
             /\ pc' = "done"
             /\ size.up >= 1
             /\ size'.down = BeforeGrowth(size).down + 1
             /\ size'.up = BeforeGrowth(size).up + 1
             /\ LnSize(size') - LnSize(BeforeGrowth(size)) = Ln095 + Ln105
             /\ LnSize(size') < LnSize(BeforeGrowth(size))
       /\ pc = "done" => size' = size /\ pc' = "done"]_vars

\* Two growth steps were made with no shrink step before them, the second
\* overflowed and the correction was made
C28_Witness ==
    /\ pc = "done"
    /\ overflowed
    /\ shrinks = 0
    /\ grows = 2
    /\ size = [down |-> 1, up |-> 2]

(***************************************************************************)
(* The order of rule tests and writes in batchFormatText                   *)
(***************************************************************************)
\* The frame of the last test as it was before the batch
FrameAtStart == originalFrames[lastStep.frame + 1]

\* The threshold the test of a heading or body rule compares with
ThresholdUsed(rule) ==
    IF rule.headingThreshold \notin {undefined, <<0>>} THEN rule.headingThreshold[1] ELSE 18

\* C29: a heading or body rule is tested against the size the frame has
\* when the rule's turn comes, as earlier matching rules of the batch have
\* left it, not against the size from before the batch; the rules [body ->
\* 24, heading -> 12] are both applied to a frame of size 12.
C29_SelectorSeesSizeLeftByEarlierRules ==
    /\ lastStep.tested /\ TestedRule.selector = "heading" =>
          (lastStep.matched <=> FrameBefore.size > ThresholdUsed(TestedRule))
    /\ lastStep.tested /\ TestedRule.selector = "body" =>
          (lastStep.matched <=> FrameBefore.size <= ThresholdUsed(TestedRule))
    /\ /\ FrameFinished
       /\ hostFails = "none"
       /\ Len(rules) = 2
       /\ rules[1] = [BareRule("body") EXCEPT !.fontSize = <<24>>]
       /\ rules[2] = [BareRule("heading") EXCEPT !.name = <<<<"H">>>>, !.fontSize = <<12>>]
       /\ originalFrames[frameIdx + 1].size = 12
       => /\ appliedRules = <<<<"r", "u", "l", "e", "_", "0">>, <<"H">>>>
          /\ CurrentFrame.size = 12

\* The heading rule has just matched a frame that was body-sized before the
\* batch and that the body rule before it has set to 24
C29_Witness ==
    /\ JustTested
    /\ hostFails = "none"
    /\ lastStep.rule = 1
    /\ rules[1] = [BareRule("body") EXCEPT !.fontSize = <<24>>]
    /\ TestedRule = [BareRule("heading") EXCEPT !.name = <<<<"H">>>>, !.fontSize = <<12>>]
    /\ lastStep.matched
    /\ FrameAtStart.size = 12
    /\ FrameBefore.size = 24
    /\ FrameAfter.size = 12
    /\ appliedRules = <<<<"r", "u", "l", "e", "_", "0">>, <<"H">>>>

====
